---------------------------- MODULE Spec2Model ----------------------------
(***************************************************************************)
(* Verification model of the airline Graph-RAG question-answering          *)
(* pipeline: intent classification, result combination and the             *)
(* answer_question orchestration.                                          *)
(***************************************************************************)
EXTENDS Integers, Sequences, FiniteSets, TLC

VARIABLES
    text,               \* classify_intent: the input text
    label,              \* classify_intent: the returned label ("<pending>" before the call)
    heap,               \* the result records (Python dicts), by reference
    cypher_response,    \* the structured response handed to combine_results
    embedding_response, \* the semantic response handed to combine_results
    max_results,        \* combine_results: the max_results argument
    combined,           \* what the last combine_results call returned (or raised)
    previous,           \* what the call before it returned, as seen at its return
    pc,                 \* answer_question: the stage reached
    request,            \* answer_question: its arguments
    available,          \* LLMIntegration.available
    cur_date,           \* date.today()
    cur_intent,         \* answer_question: the classified intent
    cur_entities,       \* answer_question: the extracted entities
    prompt,             \* answer_question: the prompt built
    llm_response,       \* answer_question: what query_model returned
    llm_calls,          \* hosted-model calls made
    raised,             \* the exception answer_question raised ("" for none)
    trace,              \* the stages run so far, each with how its collaborator ended
    bundle,             \* the dict answer_question returned
    searcher_models,    \* SimilaritySearcher.models
    loaded_models,      \* model_loader._loaded_models
    loads               \* the load_model and get_model calls made so far

intentVars == <<text, label>>
combinerVars == <<heap, cypher_response, embedding_response, max_results,
                  combined, previous>>
pipelineVars == <<pc, request, available, cur_date, cur_intent, cur_entities, prompt,
                  llm_response, llm_calls, raised, trace, bundle>>
loaderVars == <<searcher_models, loaded_models, loads>>
vars == <<text, label, heap, cypher_response, embedding_response, max_results,
          combined, previous, pc, request, available, cur_date, cur_intent,
          cur_entities, prompt, llm_response, llm_calls, raised, trace, bundle,
          searcher_models, loaded_models, loads>>

(***************************************************************************)
(* The embedding models: SimilaritySearcher.load_model and get_model       *)
(***************************************************************************)

\* SentenceTransformer instances are numbered in the order of their
\* construction; 0 stands for a name the dict does not hold
NoInstance == 0

\* GraphRAGPipeline.embedding_model_names: the names a searcher is asked for
embedding_model_names ==
    [minilm |-> "sentence-transformers/all-MiniLM-L6-v2",
     mpnet |-> "sentence-transformers/all-mpnet-base-v2"]

ModelNames == {embedding_model_names[k] : k \in DOMAIN embedding_model_names}

\* MODEL_CONFIG of the model loader
MODEL_CONFIG ==
    [minilm |-> [hf_name |-> "sentence-transformers/all-MiniLM-L6-v2", dim |-> 384],
     e5_base |-> [hf_name |-> "intfloat/multilingual-e5-base", dim |-> 768]]

\* the keys get_model is called with: the registered ones and one that is not
LoaderKeys == DOMAIN MODEL_CONFIG \cup {"mpnet"}

\* what one load_model or get_model call did: `loading` says the
\* SentenceTransformer constructor was called, `instance` is the model
\* returned (NoInstance when the call raised)
Loaded(cache, name, loading, instance, cached, exception) ==
    [cache |-> cache, name |-> name, loading |-> loading, instance |-> instance,
     cached |-> cached, raised |-> exception]

\* load_model constructing a model at every call
load_model_always(cached, model_name, fresh, ok) ==
    IF ok
    THEN Loaded("searcher", model_name, TRUE, fresh,
                [cached EXCEPT ![model_name] = fresh], "")
    ELSE Loaded("searcher", model_name, TRUE, NoInstance, cached, "OSError")

\* SimilaritySearcher.load_model(model_name) on the dict `cached`; `fresh` is
\* the instance SentenceTransformer(model_name) makes and `ok` says it
\* returns rather than raises
load_model(cached, model_name, fresh, ok) ==
    IF cached[model_name] = NoInstance
    THEN IF ok
         THEN Loaded("searcher", model_name, TRUE, fresh,
                     [cached EXCEPT ![model_name] = fresh], "")
         ELSE Loaded("searcher", model_name, TRUE, NoInstance, cached, "OSError")
    ELSE Loaded("searcher", model_name, FALSE, cached[model_name], cached, "")

\* get_model(model_key) on the dict `cached`
get_model(cached, model_key, fresh, ok) ==
    IF model_key \notin DOMAIN MODEL_CONFIG
    THEN Loaded("loader", model_key, FALSE, NoInstance, cached, "ValueError")
    ELSE IF cached[model_key] = NoInstance
    THEN IF ok
         THEN Loaded("loader", model_key, TRUE, fresh,
                     [cached EXCEPT ![model_key] = fresh], "")
         ELSE Loaded("loader", model_key, TRUE, NoInstance, cached, "OSError")
    ELSE Loaded("loader", model_key, FALSE, cached[model_key], cached, "")

\* the call as the history keeps it
LoadEvent(out) ==
    [cache |-> out.cache, name |-> out.name, loading |-> out.loading,
     instance |-> out.instance]

\* the instance the next successful construction makes
Fresh == 1 + Cardinality({i \in 1..Len(loads) :
                            loads[i].loading /\ loads[i].instance # NoInstance})

\* a searcher and a model loader that have loaded nothing
LoaderIdle ==
    /\ searcher_models = [n \in ModelNames |-> NoInstance]
    /\ loaded_models = [k \in DOMAIN MODEL_CONFIG |-> NoInstance]
    /\ loads = <<>>

(***************************************************************************)
(* Python string primitives (ASCII)                                        *)
(***************************************************************************)

\* Python `k in t` for strings: substring containment
Contains(t, k) ==
    \E i \in 1..(Len(t) - Len(k) + 1) : SubSeq(t, i, i + Len(k) - 1) = k

\* any(word in t for word in kws)
AnyIn(t, kws) == \E w \in kws : Contains(t, w)

UpperLetters == "ABCDEFGHIJKLMNOPQRSTUVWXYZ"
LowerLetters == "abcdefghijklmnopqrstuvwxyz"

LowerChar(c) ==
    IF \E i \in 1..26 : SubSeq(UpperLetters, i, i) = c
    THEN LET i == CHOOSE k \in 1..26 : SubSeq(UpperLetters, k, k) = c
         IN SubSeq(LowerLetters, i, i)
    ELSE c

UpperChar(c) ==
    IF \E i \in 1..26 : SubSeq(LowerLetters, i, i) = c
    THEN LET i == CHOOSE k \in 1..26 : SubSeq(LowerLetters, k, k) = c
         IN SubSeq(UpperLetters, i, i)
    ELSE c

RECURSIVE MapChars(_, _)
MapChars(s, up) ==
    IF Len(s) = 0 THEN ""
    ELSE (IF up THEN UpperChar(SubSeq(s, 1, 1)) ELSE LowerChar(SubSeq(s, 1, 1)))
         \o MapChars(SubSeq(s, 2, Len(s)), up)

\* str.lower() / str.upper()
lower(s) == MapChars(s, FALSE)
upper(s) == MapChars(s, TRUE)

(***************************************************************************)
(* preprocessing/intent-classifier.py                                      *)
(***************************************************************************)

StatKeywords == {"average", "mean", "count", "how many", "total",
                 "percentage", "statistics", "stats"}
MostDelayedKeywords == {"longest", "worst", "most delayed", "maximum delay"}
DelayLateKeywords == {"delay", "late"}
JourneyKeywords == {"journey", "flight", "route", "distance"}
ShortestKeywords == {"shortest", "fastest", "quickest", "nearest"}
MultiLegKeywords == {"multi-leg", "connection", "stop", "layover", "indirect"}
LoyaltyKeywords == {"loyalty", "frequent flyer", "member", "tier"}
delay_keywords == {"delay", "late", "on time", "punctual", "arrival time"}
flight_keywords == {"flight", "flights", "depart", "arrive"}
airport_keywords == {"airport", "terminal", "gate", "station"}
passenger_keywords == {"rating", "satisfaction", "feedback", "experience",
                       "service quality", "food", "meal"}
recommendation_keywords == {"recommend", "best route", "optimal"}
GeneralKeywords == {"flight", "flights", "journey", "journeys"}

\* the rule chain with the general delay rule tried before the statistics rule
classify_rules_reordered(t) ==
    IF AnyIn(t, delay_keywords) THEN "delay_analysis"
    ELSE IF AnyIn(t, StatKeywords) THEN "calculate_statistic"
    ELSE IF AnyIn(t, MostDelayedKeywords) /\ AnyIn(t, DelayLateKeywords)
        THEN "most_delayed_flights"
    ELSE IF AnyIn(t, MostDelayedKeywords) /\ Contains(t, "longest")
            /\ AnyIn(t, JourneyKeywords)
        THEN "longest_journeys"
    ELSE IF AnyIn(t, ShortestKeywords) /\ AnyIn(t, JourneyKeywords)
        THEN "shortest_journeys"
    ELSE IF AnyIn(t, MultiLegKeywords) THEN "multi_leg_flights"
    ELSE IF AnyIn(t, LoyaltyKeywords) THEN "loyalty_analysis"
    ELSE IF AnyIn(t, flight_keywords) /\ (Contains(t, "from") \/ Contains(t, "to"))
        THEN "find_flights"
    ELSE IF AnyIn(t, airport_keywords) THEN "airport_info"
    ELSE IF AnyIn(t, passenger_keywords) THEN "passenger_experience"
    ELSE IF AnyIn(t, recommendation_keywords) THEN "route_recommendation"
    ELSE IF AnyIn(t, GeneralKeywords) THEN "general_query"
    ELSE "general_query"

\* the rule chain with the flight-search rule not asking for "from"/"to"
classify_rules_noguard(t) ==
    IF AnyIn(t, StatKeywords) THEN "calculate_statistic"
    ELSE IF AnyIn(t, MostDelayedKeywords) /\ AnyIn(t, DelayLateKeywords)
        THEN "most_delayed_flights"
    ELSE IF AnyIn(t, MostDelayedKeywords) /\ Contains(t, "longest")
            /\ AnyIn(t, JourneyKeywords)
        THEN "longest_journeys"
    ELSE IF AnyIn(t, ShortestKeywords) /\ AnyIn(t, JourneyKeywords)
        THEN "shortest_journeys"
    ELSE IF AnyIn(t, MultiLegKeywords) THEN "multi_leg_flights"
    ELSE IF AnyIn(t, LoyaltyKeywords) THEN "loyalty_analysis"
    ELSE IF AnyIn(t, delay_keywords) THEN "delay_analysis"
    ELSE IF AnyIn(t, flight_keywords)
        THEN "find_flights"
    ELSE IF AnyIn(t, airport_keywords) THEN "airport_info"
    ELSE IF AnyIn(t, passenger_keywords) THEN "passenger_experience"
    ELSE IF AnyIn(t, recommendation_keywords) THEN "route_recommendation"
    ELSE IF AnyIn(t, GeneralKeywords) THEN "general_query"
    ELSE "general_query"

\* the if-chain of classify_intent over the lower-cased text t, in source order
classify_rules(t) ==
    IF AnyIn(t, StatKeywords) THEN "calculate_statistic"
    ELSE IF AnyIn(t, MostDelayedKeywords) /\ AnyIn(t, DelayLateKeywords)
        THEN "most_delayed_flights"
    ELSE IF AnyIn(t, MostDelayedKeywords) /\ Contains(t, "longest")
            /\ AnyIn(t, JourneyKeywords)
        THEN "longest_journeys"
    ELSE IF AnyIn(t, ShortestKeywords) /\ AnyIn(t, JourneyKeywords)
        THEN "shortest_journeys"
    ELSE IF AnyIn(t, MultiLegKeywords) THEN "multi_leg_flights"
    ELSE IF AnyIn(t, LoyaltyKeywords) THEN "loyalty_analysis"
    ELSE IF AnyIn(t, delay_keywords) THEN "delay_analysis"
    ELSE IF AnyIn(t, flight_keywords) /\ (Contains(t, "from") \/ Contains(t, "to"))
        THEN "find_flights"
    ELSE IF AnyIn(t, airport_keywords) THEN "airport_info"
    ELSE IF AnyIn(t, passenger_keywords) THEN "passenger_experience"
    ELSE IF AnyIn(t, recommendation_keywords) THEN "route_recommendation"
    ELSE IF AnyIn(t, GeneralKeywords) THEN "general_query"
    ELSE "general_query"

\* classify_intent without the lower-casing of the input
classify_intent_nolower(txt) == classify_rules(txt)

\* classify_intent(text)
classify_intent(txt) == classify_rules(lower(txt))

(***************************************************************************)
(* Values of result records                                                *)
(***************************************************************************)

\* the label of a question classify_intent has not returned for yet
Pending == "<pending>"

\* a dict key that is missing, and the value None, for string-valued keys
AbsentKey == "<absent>"
NoneStr == "<None>"

\* number-valued keys: missing, None, or a number
Absent == [p |-> "absent", v |-> 0]
NoneVal == [p |-> "none", v |-> 0]
Num(n) == [p |-> "num", v |-> n]

\* f"{result.get(key, dflt)}"
GetStr(f, dflt) ==
    IF f.p = "absent" THEN dflt
    ELSE IF f.p = "none" THEN "None"
    ELSE ToString(f.v)

Abs(n) == IF n < 0 THEN -n ELSE n

RECURSIVE Pow10(_)
Pow10(d) == IF d = 0 THEN 1 ELSE 10 * Pow10(d - 1)

RECURSIVE ZeroPad(_, _)
ZeroPad(str, d) == IF Len(str) >= d THEN str ELSE ZeroPad("0" \o str, d)

\* f"{x:.<d>f}" of the number x = (neg ? -1 : 1) * mag / 10^d
FmtFixed(neg, mag, d) ==
    (IF neg THEN "-" ELSE "") \o ToString(mag \div Pow10(d)) \o "."
        \o ZeroPad(ToString(mag % Pow10(d)), d)

\* f"{x:.2f}" / f"{x:.3f}" of a number held in units of 10^-d
FmtScaled(v, d) == FmtFixed(v < 0, Abs(v), d)

\* the tenths f"{sum/n:.1f}" shows: the quotient rounded to one decimal,
\* a tie going to the even digit (the float quotient of fewer than 20
\* integers is exact at every tie)
RoundTenths(sum, n) ==
    LET a == 10 * Abs(sum)
        q == a \div n
        r == a % n
    IN IF 2 * r > n \/ (2 * r = n /\ q % 2 = 1) THEN q + 1 ELSE q

\* the whole list
SliceAll(seq, n) == seq

\* list[:n]
Slice(seq, n) ==
    IF n >= 0 THEN SubSeq(seq, 1, IF n < Len(seq) THEN n ELSE Len(seq))
    ELSE SubSeq(seq, 1, IF Len(seq) + n > 0 THEN Len(seq) + n ELSE 0)

RECURSIVE Join(_, _)
\* sep.join(parts)
Join(parts, sep) ==
    IF Len(parts) = 0 THEN ""
    ELSE IF Len(parts) = 1 THEN parts[1]
    ELSE parts[1] \o sep \o Join(Tail(parts), sep)

RECURSIVE Repeat(_, _)
\* ch * n
Repeat(ch, n) == IF n = 0 THEN "" ELSE ch \o Repeat(ch, n - 1)

RuleWidth == 80
DoubleRule == Repeat("=", RuleWidth)
SingleRule == Repeat("-", RuleWidth)

(***************************************************************************)
(* llm_layer/result_combiner.py                                            *)
(***************************************************************************)

\* every value taken for an identifier
TruthyAny(id) == TRUE

\* Python truthiness of an identifier value
Truthy(id) == id \notin {AbsentKey, NoneStr, ""}

\* _extract_id(result)
extract_id(r) ==
    IF r.feedback_ID # AbsentKey THEN r.feedback_ID
    ELSE IF r.j # AbsentKey THEN r.j
    ELSE NoneStr

\* result.get("feedback_ID")
get_feedback_ID(r) == IF r.feedback_ID = AbsentKey THEN NoneStr ELSE r.feedback_ID

\* one of the two loops of _merge_and_deduplicate, from position i on;
\* acc = [heap, seen, unique]
RECURSIVE MergeLoop(_, _, _, _, _)
MergeLoop(acc, results, i, tag, nested) ==
    IF i > Len(results) THEN acc
    ELSE LET ref == results[i]
             feedback_id == IF nested THEN extract_id(acc.heap[ref])
                            ELSE get_feedback_ID(acc.heap[ref])
         IN IF Truthy(feedback_id) /\ feedback_id \notin acc.seen
            THEN MergeLoop([heap   |-> [acc.heap EXCEPT ![ref].source = tag],
                            seen   |-> acc.seen \cup {feedback_id},
                            unique |-> Append(acc.unique, ref)],
                           results, i + 1, tag, nested)
            ELSE MergeLoop(acc, results, i + 1, tag, nested)

\* the merge loop passing over records that already carry a source tag
RECURSIVE MergeLoopSkipTagged(_, _, _, _, _)
MergeLoopSkipTagged(acc, results, i, tag, nested) ==
    IF i > Len(results) THEN acc
    ELSE LET ref == results[i]
             feedback_id == IF nested THEN extract_id(acc.heap[ref])
                            ELSE get_feedback_ID(acc.heap[ref])
         IN IF Truthy(feedback_id) /\ feedback_id \notin acc.seen
               /\ acc.heap[ref].source = AbsentKey
            THEN MergeLoopSkipTagged(
                     [heap   |-> [acc.heap EXCEPT ![ref].source = tag],
                      seen   |-> acc.seen \cup {feedback_id},
                      unique |-> Append(acc.unique, ref)],
                     results, i + 1, tag, nested)
            ELSE MergeLoopSkipTagged(acc, results, i + 1, tag, nested)

\* _merge_and_deduplicate keeping only records not tagged by an earlier call
merge_and_deduplicate_skip_tagged(h, cypher_results, embedding_results) ==
    LET first == MergeLoopSkipTagged([heap |-> h, seen |-> {}, unique |-> <<>>],
                                     cypher_results, 1, "cypher", TRUE)
    IN MergeLoopSkipTagged(first, embedding_results, 1, "embedding", FALSE)

\* _merge_and_deduplicate with the semantic results merged first
merge_and_deduplicate_embedding_first(h, cypher_results, embedding_results) ==
    LET first == MergeLoop([heap |-> h, seen |-> {}, unique |-> <<>>],
                           embedding_results, 1, "embedding", FALSE)
    IN MergeLoop(first, cypher_results, 1, "cypher", TRUE)

\* _merge_and_deduplicate without the seen_ids test
merge_and_deduplicate_no_seen(h, cypher_results, embedding_results) ==
    LET tagc == [r \in DOMAIN h |->
                    IF \E i \in 1..Len(cypher_results) : cypher_results[i] = r
                       /\ Truthy(extract_id(h[r]))
                    THEN [h[r] EXCEPT !.source = "cypher"] ELSE h[r]]
        tage == [r \in DOMAIN h |->
                    IF \E i \in 1..Len(embedding_results) : embedding_results[i] = r
                       /\ Truthy(get_feedback_ID(h[r]))
                    THEN [tagc[r] EXCEPT !.source = "embedding"] ELSE tagc[r]]
    IN [heap |-> tage, seen |-> {},
        unique |-> SelectSeq(cypher_results, LAMBDA r : Truthy(extract_id(h[r])))
                   \o SelectSeq(embedding_results,
                                LAMBDA r : Truthy(get_feedback_ID(h[r])))]

\* _merge_and_deduplicate(cypher_results, embedding_results) on heap h
merge_and_deduplicate(h, cypher_results, embedding_results) ==
    LET first == MergeLoop([heap |-> h, seen |-> {}, unique |-> <<>>],
                           cypher_results, 1, "cypher", TRUE)
    IN MergeLoop(first, embedding_results, 1, "embedding", FALSE)

\* _calculate_avg counting a record without a numeric value as 0
calculate_avg_counting_missing(h, results, field) ==
    LET RECURSIVE Acc(_)
        Acc(i) ==
            IF i = 0 THEN [n |-> 0, sum |-> 0]
            ELSE LET rest == Acc(i - 1)
                     value == h[results[i]][field]
                 IN [n |-> rest.n + 1,
                     sum |-> rest.sum + (IF value.p = "num" THEN value.v ELSE 0)]
    IN Acc(Len(results))

\* _calculate_avg giving 0 instead of None when no value is numeric
calculate_avg_zero_for_none(h, results, field) ==
    LET RECURSIVE Acc(_)
        Acc(i) ==
            IF i = 0 THEN [n |-> 0, sum |-> 0]
            ELSE LET rest == Acc(i - 1)
                     value == h[results[i]][field]
                 IN IF value.p = "num"
                    THEN [n |-> rest.n + 1, sum |-> rest.sum + value.v]
                    ELSE rest
    IN IF Acc(Len(results)).n = 0 THEN [n |-> 1, sum |-> 0] ELSE Acc(Len(results))

\* _calculate_avg(results, field): the count and the sum of the numeric
\* values; the average is None when the count is 0
calculate_avg(h, results, field) ==
    LET RECURSIVE Acc(_)
        Acc(i) ==
            IF i = 0 THEN [n |-> 0, sum |-> 0]
            ELSE LET rest == Acc(i - 1)
                     value == h[results[i]][field]
                 IN IF value.p = "num"
                    THEN [n |-> rest.n + 1, sum |-> rest.sum + value.v]
                    ELSE rest
    IN Acc(Len(results))

\* f"{avg:.1f}" of an average that is not None
FmtAvg(avg) == FmtFixed(avg.sum < 0, RoundTenths(avg.sum, avg.n), 1)

\* _format_single_result(result, index, include_score); the modelled
\* records carry no flight, airport or passenger keys, which show as their
\* defaults
format_single_result(r, index, include_score) ==
    LET feedback_id == IF Truthy(get_feedback_ID(r)) THEN get_feedback_ID(r)
                       ELSE extract_id(r)
    IN Join(
        <<"\nResult " \o ToString(index) \o ":">>
        \o (IF Truthy(feedback_id) THEN <<"  Journey ID: " \o feedback_id>> ELSE <<>>)
        \o << "  Route: N/A -> N/A",
              "  Flight: N/A (N/A)",
              "  Passenger Class: Unknown",
              "  Passenger: N/A, N/A loyalty (Locator: N/A)",
              "  Food Satisfaction: " \o GetStr(r.food_satisfaction_score, "N/A") \o "/5",
              "  Arrival Delay: " \o GetStr(r.arrival_delay_minutes, "N/A") \o " minutes",
              "  Distance: N/A miles",
              "  Number of Legs: N/A" >>
        \o (IF include_score /\ r.score.p = "num"
            THEN <<"  Similarity Score: " \o FmtScaled(r.score.v, 3)>> ELSE <<>>),
        "\n")

\* the formatted results of a list, numbered from 1
FormatAll(h, results, include_score) ==
    [i \in 1..Len(results) |-> format_single_result(h[results[i]], i, include_score)]

\* record.get(key, 0) for the aggregates of a statistics record
GetOrZero(f) == IF f.p = "absent" THEN Num(0) ELSE f

\* the "Filters Applied" line of the statistics block
ActiveFilters(params) ==
    (IF Truthy(params.generation)
        THEN <<"Generation: " \o params.generation>> ELSE <<>>)
    \o (IF Truthy(params.passenger_class)
        THEN <<"Passenger Class: " \o params.passenger_class>> ELSE <<>>)
    \o (IF Truthy(params.from_airport)
        THEN <<"From: " \o params.from_airport>> ELSE <<>>)
    \o (IF Truthy(params.to_airport)
        THEN <<"To: " \o params.to_airport>> ELSE <<>>)
    \o (IF params.number_of_legs.p = "num" /\ params.number_of_legs.v # 0
        THEN <<"Legs: " \o ToString(params.number_of_legs.v)>> ELSE <<>>)

Header(intent) == <<"KNOWLEDGE GRAPH DATA (Intent: " \o intent \o "):", DoubleRule>>

\* the statistics branch of _format_for_llm (lines 150-195); formatting a
\* None aggregate with :.2f raises TypeError
FormatStatistics(h, cypher_results, embedding_results, intent, params) ==
    LET record == h[cypher_results[1]]
        total == GetOrZero(record.total_journeys)
        avg_delay == GetOrZero(record.avg_delay)
        avg_food == GetOrZero(record.avg_food_score)
        avg_dist == GetOrZero(record.avg_distance)
        min_delay == GetOrZero(record.min_delay)
        max_delay == GetOrZero(record.max_delay)
        active_filters == ActiveFilters(params)
    IN IF avg_delay.p = "none" \/ avg_food.p = "none" \/ avg_dist.p = "none"
       THEN [raised |-> "TypeError", text |-> ""]
       ELSE [raised |-> "",
             text |-> Join(
                Header(intent)
                \o <<"STATISTICAL ANALYSIS:">>
                \o (IF Len(active_filters) > 0
                    THEN <<"Filters Applied: " \o Join(active_filters, ", ")>>
                    ELSE <<"Filters Applied: None (Global Statistics)">>)
                \o << SingleRule,
                      "Total Journeys: " \o GetStr(total, "0"),
                      "Average Delay: " \o FmtScaled(avg_delay.v, 2) \o " minutes",
                      "Average Food Satisfaction: " \o FmtScaled(avg_food.v, 2) \o "/5",
                      "Average Distance: " \o FmtScaled(avg_dist.v, 2) \o " miles",
                      "Delay Range: " \o GetStr(min_delay, "0") \o " to "
                          \o GetStr(max_delay, "0") \o " minutes",
                      DoubleRule >>
                \o (IF Len(embedding_results) > 0
                    THEN <<"\nRELEVANT EXAMPLES (from AI similarity search):", SingleRule>>
                         \o FormatAll(h, Slice(embedding_results, 5), TRUE)
                    ELSE <<>>),
                "\n")]

\* the listing branch of _format_for_llm (lines 197-236)
FormatListing(h, cypher_results, embedding_results, unique_results, intent) ==
    LET avg_delay == calculate_avg(h, unique_results, "arrival_delay_minutes")
        avg_food == calculate_avg(h, unique_results, "food_satisfaction_score")
    IN [raised |-> "",
        text |-> Join(
            Header(intent)
            \o (IF Len(cypher_results) > 0
                THEN <<"\n1. EXACT MATCHES from database query ("
                           \o ToString(Len(cypher_results)) \o " results):",
                       SingleRule>>
                     \o FormatAll(h, cypher_results, FALSE)
                ELSE <<"\n1. EXACT MATCHES: No exact matches found.">>)
            \o (IF Len(embedding_results) > 0
                THEN <<"\n2. SEMANTIC MATCHES from AI similarity search ("
                           \o ToString(Len(embedding_results)) \o " results):",
                       SingleRule>>
                     \o FormatAll(h, embedding_results, TRUE)
                ELSE <<"\n2. SEMANTIC MATCHES: No similar journeys found.">>)
            \o << "\n3. SUMMARY:",
                  SingleRule,
                  "Total unique journeys found: " \o ToString(Len(unique_results)),
                  "From exact database queries: " \o ToString(Len(cypher_results)),
                  "From semantic similarity: " \o ToString(Len(embedding_results)) >>
            \o (IF Len(unique_results) > 0 /\ avg_delay.n > 0
                THEN <<"Average arrival delay: " \o FmtAvg(avg_delay) \o " minutes">>
                ELSE <<>>)
            \o (IF Len(unique_results) > 0 /\ avg_food.n > 0
                THEN <<"Average food satisfaction: " \o FmtAvg(avg_food) \o "/5">>
                ELSE <<>>)
            \o <<DoubleRule>>,
            "\n")]

\* the listing for every intent
format_for_llm_listing_only(h, cypher_results, embedding_results, unique_results, intent, params) ==
    FormatListing(h, cypher_results, embedding_results, unique_results, intent)

\* the placeholder of the pipeline when nothing was found
format_for_llm_placeholder(h, cypher_results, embedding_results, unique_results, intent, params) ==
    IF Len(unique_results) = 0 THEN [raised |-> "", text |-> "No data found."]
    ELSE IF intent = "calculate_statistic" /\ Len(cypher_results) > 0
    THEN FormatStatistics(h, cypher_results, embedding_results, intent, params)
    ELSE FormatListing(h, cypher_results, embedding_results, unique_results, intent)

\* _format_for_llm(cypher_results, embedding_results, unique_results, intent, params)
format_for_llm(h, cypher_results, embedding_results, unique_results, intent, params) ==
    IF intent = "calculate_statistic" /\ Len(cypher_results) > 0
    THEN FormatStatistics(h, cypher_results, embedding_results, intent, params)
    ELSE FormatListing(h, cypher_results, embedding_results, unique_results, intent)

\* no combine_results call has returned
NoCombined ==
    [status |-> "none", cypher_results |-> <<>>, embedding_results |-> <<>>,
     unique_results |-> <<>>, formatted_context |-> "", total_count |-> 0]

\* combine_results(cypher_response, embedding_response, max_results) on
\* heap h: the heap it leaves and what it returns or raises
combine_results(h, cy, em, maxr) ==
    LET cypher_results == Slice(cy.results, maxr)
        embedding_results == Slice(em.results, maxr)
        merged == merge_and_deduplicate(h, cypher_results, embedding_results)
        formatted == format_for_llm(merged.heap, cypher_results, embedding_results,
                                    merged.unique, cy.intent, cy.params)
    IN [heap |-> merged.heap,
        out  |-> IF formatted.raised # ""
                 THEN [NoCombined EXCEPT !.status = formatted.raised]
                 ELSE [status |-> "ok",
                       cypher_results |-> cypher_results,
                       embedding_results |-> embedding_results,
                       unique_results |-> merged.unique,
                       formatted_context |-> formatted.text,
                       total_count |-> Len(merged.unique)]]

(***************************************************************************)
(* Responses handed to combine_results                                     *)
(***************************************************************************)

\* a journey record as the query templates and the vector search return it
JourneyRec(id, delay, food, score) ==
    [feedback_ID |-> id, j |-> AbsentKey,
     arrival_delay_minutes |-> delay, food_satisfaction_score |-> food,
     score |-> score, source |-> AbsentKey,
     total_journeys |-> Absent, avg_delay |-> Absent, avg_food_score |-> Absent,
     avg_distance |-> Absent, min_delay |-> Absent, max_delay |-> Absent]

\* a record holding the journey as a nested object under "j"
NestedRec(id) ==
    [JourneyRec(AbsentKey, Absent, Absent, Absent) EXCEPT !.j = id]

\* the single row of the calculate_statistic template; averages in hundredths
StatRec(total, avgd, avgf, avgm, mind, maxd) ==
    [JourneyRec(AbsentKey, Absent, Absent, Absent) EXCEPT
        !.total_journeys = total, !.avg_delay = avgd, !.avg_food_score = avgf,
        !.avg_distance = avgm, !.min_delay = mind, !.max_delay = maxd]

\* the record objects of the model, by reference
Pool ==
    << JourneyRec("J1", Num(100), Num(2), Absent),             \* 1 structured
       NestedRec("J2"),                                        \* 2 structured
       StatRec(Num(3), Num(8333), Num(267), Num(97300),
               Num(50), Num(104)),                             \* 3 aggregate row
       StatRec(Num(0), NoneVal, NoneVal, NoneVal,
               NoneVal, NoneVal),                              \* 4 aggregate of no rows
       JourneyRec("J1", Num(100), Num(2), Num(900)),           \* 5 semantic
       JourneyRec("J2", Num(50), Num(3), Num(800)),            \* 6 semantic
       JourneyRec("J3", Num(-7), NoneVal, Num(750)),           \* 7 semantic
       JourneyRec("", Num(3), Num(1), Num(500)),               \* 8 semantic, no id
       JourneyRec("J4", Num(20), NoneVal, Absent) >>           \* 9 structured

CypherPool == 1..4
EmbeddingPool == 5..8

\* the input lists hold at most MaxCypher and MaxEmbedding records
MaxCypher == 2
MaxEmbedding == 2

SeqsUpTo(S, n) == UNION {[1..k -> S] : k \in 0..n}

NoParams ==
    [from_airport |-> NoneStr, to_airport |-> NoneStr, passenger_class |-> NoneStr,
     generation |-> NoneStr, number_of_legs |-> NoneVal, limit |-> 20,
     station_code |-> AbsentKey]

\* a response: None, or the dict a retrieval path returns ("error" is
\* AbsentKey when the dict has no such key)
NoResponse ==
    [kind |-> "none", intent |-> "", params |-> NoParams, results |-> <<>>,
     count |-> 0, error |-> AbsentKey, query |-> ""]

CypherResponse(intent, params, results) ==
    [kind |-> "cypher", intent |-> intent, params |-> params, results |-> results,
     count |-> Len(results), error |-> AbsentKey, query |-> ""]

EmbeddingResponse(query, results) ==
    [kind |-> "embedding", intent |-> "unknown", params |-> NoParams,
     results |-> results, count |-> Len(results), error |-> AbsentKey,
     query |-> query]

DefaultMaxResults == 20

\* intent and parameters of the structured responses tried
CombinerRequests ==
    { [intent |-> "delay_analysis", params |-> NoParams],
      [intent |-> "calculate_statistic", params |-> NoParams],
      [intent |-> "calculate_statistic",
       params |-> [NoParams EXCEPT !.generation = "Gen Z",
                                   !.number_of_legs = Num(2)]] }

\* AirlineEntities(): every field None
NoEntities ==
    [flight_no |-> NoneStr, departure_airport |-> NoneStr,
     arrival_airport |-> NoneStr, route |-> NoneStr, passenger_class |-> NoneStr,
     generation |-> NoneStr, fleet_type |-> NoneStr, date |-> NoneStr,
     sort_order |-> NoneStr, sort_attribute |-> NoneStr, limit |-> NoneVal,
     number_of_legs |-> NoneVal]

\* query_model has not returned
NoLLMResponse ==
    [status |-> "none", model |-> "", model_full_name |-> "", answer |-> "",
     success |-> FALSE, error |-> NoneStr]

\* answer_question has not returned
NoBundle ==
    [status |-> "none", user_query |-> "", intent |-> "", entities |-> NoEntities,
     cypher_results |-> NoResponse, embedding_results |-> NoResponse,
     combined_context |-> "", prompt |-> "", llm_response |-> NoLLMResponse,
     answer |-> "", success |-> FALSE]

NoRequest ==
    [user_query |-> "", model |-> NoneStr, use_embeddings |-> TRUE,
     use_cypher |-> TRUE]

FirstDay == [y |-> 2024, m |-> 2, d |-> 28]

\* a stage of answer_question that has run: whether its collaborator
\* answered, and the message of the exception when it did not
Event(stage, ok, message) == [stage |-> stage, ok |-> ok, text |-> message]

IntentIdle == text = "" /\ label = Pending

PipelineIdle ==
    /\ pc = "idle"
    /\ request = NoRequest
    /\ available = TRUE
    /\ cur_date = FirstDay
    /\ cur_intent = ""
    /\ cur_entities = NoEntities
    /\ prompt = ""
    /\ llm_response = NoLLMResponse
    /\ llm_calls = 0
    /\ raised = ""
    /\ trace = <<>>
    /\ bundle = NoBundle

CombinerIdle ==
    /\ heap = Pool
    /\ cypher_response = NoResponse
    /\ embedding_response = NoResponse
    /\ max_results = DefaultMaxResults
    /\ combined = NoCombined
    /\ previous = NoCombined

CombinerInit ==
    /\ IntentIdle
    /\ PipelineIdle
    /\ heap = Pool
    /\ \E rq \in CombinerRequests : \E rs \in SeqsUpTo(CypherPool, MaxCypher) :
          cypher_response = CypherResponse(rq.intent, rq.params, rs)
    /\ \E rs \in SeqsUpTo(EmbeddingPool, MaxEmbedding) :
          embedding_response = EmbeddingResponse("q", rs)
    /\ max_results \in {1, DefaultMaxResults}
    /\ combined = NoCombined
    /\ previous = NoCombined
    /\ LoaderIdle

\* what a caller sees of a returned value: the value and the records its
\* lists refer to
View(out, h) ==
    [out |-> out,
     cypher |-> [i \in 1..Len(out.cypher_results) |-> h[out.cypher_results[i]]],
     embedding |-> [i \in 1..Len(out.embedding_results) |-> h[out.embedding_results[i]]],
     unique |-> [i \in 1..Len(out.unique_results) |-> h[out.unique_results[i]]]]

\* the first combine_results call on the two responses
CombineFirst ==
    /\ combined.status = "none"
    /\ LET res == combine_results(heap, cypher_response, embedding_response, max_results)
       IN /\ heap' = res.heap
          /\ combined' = res.out
    /\ UNCHANGED <<cypher_response, embedding_response, max_results, previous>>
    /\ UNCHANGED intentVars
    /\ UNCHANGED pipelineVars
    /\ UNCHANGED loaderVars

\* a second call with the same two responses, as the first call left them
CombineAgain ==
    /\ combined.status # "none"
    /\ previous.status = "none"
    /\ previous' = [status |-> "seen", view |-> View(combined, heap)]
    /\ LET res == combine_results(heap, cypher_response, embedding_response, max_results)
       IN /\ heap' = res.heap
          /\ combined' = res.out
    /\ UNCHANGED <<cypher_response, embedding_response, max_results>>
    /\ UNCHANGED intentVars
    /\ UNCHANGED pipelineVars
    /\ UNCHANGED loaderVars

CombinerNext == CombineFirst \/ CombineAgain

SpecCombiner == CombinerInit /\ [][CombinerNext]_vars

(***************************************************************************)
(* Properties of combine_results                                           *)
(***************************************************************************)

\* the journey identifier a record carries
IdOf(ref) == extract_id(heap[ref])

Range(seq) == {seq[i] : i \in 1..Len(seq)}

\* the first max_results records of the two input lists
CyIn == Slice(cypher_response.results, max_results)
EmIn == Slice(embedding_response.results, max_results)

Returned == combined.status = "ok"

\* the returned unique_results holds no identifier twice
UniqueIds ==
    \A i, k \in 1..Len(combined.unique_results) :
        i # k => IdOf(combined.unique_results[i]) # IdOf(combined.unique_results[k])

\* every identifier found in both lists cy and em is retained as a record
\* of cy tagged "cypher"
StructuredWins(cy, em) ==
    \A i \in 1..Len(cy) : \A k \in 1..Len(em) :
        (Truthy(IdOf(cy[i])) /\ IdOf(cy[i]) = IdOf(em[k]))
            => \E n \in 1..Len(combined.unique_results) :
                  LET ref == combined.unique_results[n] IN
                  /\ IdOf(ref) = IdOf(cy[i])
                  /\ ref \in Range(cy)
                  /\ heap[ref].source = "cypher"

CyKept ==
    {i \in 1..Len(CyIn) :
        /\ Truthy(IdOf(CyIn[i]))
        /\ \A k \in 1..(i - 1) : IdOf(CyIn[k]) # IdOf(CyIn[i])}
EmKept ==
    {i \in 1..Len(EmIn) :
        /\ Truthy(get_feedback_ID(heap[EmIn[i]]))
        /\ \A k \in 1..(i - 1) : IdOf(EmIn[k]) # IdOf(EmIn[i])
        /\ \A k \in 1..Len(CyIn) : IdOf(CyIn[k]) # IdOf(EmIn[i])}

\* the records of the deduplicated set
Deduplicated == {CyIn[i] : i \in CyKept} \cup {EmIn[i] : i \in EmKept}

HasDelay(ref) == heap[ref].arrival_delay_minutes.p = "num"

RECURSIVE SumDelay(_)
SumDelay(refs) ==
    IF refs = {} THEN 0
    ELSE LET ref == CHOOSE x \in refs : TRUE
         IN heap[ref].arrival_delay_minutes.v + SumDelay(refs \ {ref})

\* where the line ending at position e of str starts
RECURSIVE LineStart(_, _)
LineStart(str, e) ==
    IF e < 1 \/ SubSeq(str, e, e) = "\n" THEN e + 1 ELSE LineStart(str, e - 1)

\* the last three lines of a text, last first
LastLines(str) ==
    LET s1 == LineStart(str, Len(str))
        s2 == LineStart(str, s1 - 2)
        s3 == LineStart(str, s2 - 2)
    IN << SubSeq(str, s1, Len(str)), SubSeq(str, s2, s1 - 2), SubSeq(str, s3, s2 - 2) >>

\* the listing-mode context closes with the averages of the summary, if
\* any (delay, then food), and the closing rule; line is one of them
SummaryHasLine(line) ==
    LET last == LastLines(combined.formatted_context)
    IN /\ last[1] = DoubleRule
       /\ \/ last[2] = line
          \/ last[3] = line /\ SubSeq(last[2], 1, 8) = "Average "

ListingMode ==
    /\ Returned
    /\ ~(cypher_response.intent = "calculate_statistic" /\ Len(CyIn) > 0)

\* the summary reports, to one decimal, the mean sum/n of the delays
ReportsMeanDelay(sum, n) ==
    LET q == (10 * Abs(sum)) \div n
    IN \E t \in {q, q + 1} :
          /\ 2 * Abs(t * n - 10 * Abs(sum)) <= n
          /\ SummaryHasLine("Average arrival delay: " \o FmtFixed(sum < 0, t, 1)
                            \o " minutes")

\* C2 as stated: in listing mode the reported average delay is the mean of
\* arrival_delay_minutes over all the records of the deduplicated set, each
\* counted once.
Cex_C2_MeanOverWholeSet ==
    (ListingMode /\ Deduplicated # {}) =>
        /\ \A ref \in Deduplicated : HasDelay(ref)
        /\ ReportsMeanDelay(SumDelay(Deduplicated), Cardinality(Deduplicated))

\* C2 amended: in listing mode the reported average delay is the mean, shown
\* to one decimal, of arrival_delay_minutes over the records of the
\* deduplicated set that carry a number there, each counted once.
Thm_C2_MeanOverRecordsWithDelay ==
    LET counted == {ref \in Deduplicated : HasDelay(ref)} IN
    (ListingMode /\ counted # {}) =>
        ReportsMeanDelay(SumDelay(counted), Cardinality(counted))

\* three journeys (100, 50 and -7 minutes) after a duplicate was dropped
Wit_C2_MeanOfThree ==
    /\ ListingMode
    /\ combined.unique_results = <<1, 6, 7>>
    /\ Len(CyIn) + Len(EmIn) = 4
    /\ SummaryHasLine("Average arrival delay: 47.7 minutes")

\* C3: a second combine_results call on the same two responses returns
\* what the first returned: the same lists and records in the same order
\* with the same tags, the same total_count and the same formatted_context.
Thm_C3_SecondCallSameOutput ==
    previous.status = "seen" => View(combined, heap) = previous.view

\* a second call after a first that dropped a duplicate and tagged records
Wit_C3_SecondCall ==
    /\ previous.status = "seen"
    /\ Returned
    /\ combined.total_count = 2
    /\ Len(CyIn) + Len(EmIn) = 3
    /\ \E i \in 1..2 : heap[combined.unique_results[i]].source = "embedding"

(***************************************************************************)
(* Regular-expression primitives (ASCII): \w, \d, \s, \b                   *)
(***************************************************************************)

Ch(str, i) == SubSeq(str, i, i)

\* F applied to the value of v, v being worked out once
Bind(v, F(_)) == CHOOSE r \in {F(x) : x \in {v}} : TRUE

Digits == "0123456789"
IsDigit(c) == \E i \in 1..10 : Ch(Digits, i) = c
IsUpper(c) == \E i \in 1..26 : Ch(UpperLetters, i) = c
IsLower(c) == \E i \in 1..26 : Ch(LowerLetters, i) = c
IsWordChar(c) == IsDigit(c) \/ IsUpper(c) \/ IsLower(c) \/ c = "_"
IsSpace(c) == c \in {" ", "\n", "\t", "\r"}

AllChars(str, P(_)) == \A i \in 1..Len(str) : P(Ch(str, i))

DigitValue(c) == (CHOOSE i \in 1..10 : Ch(Digits, i) = c) - 1

\* int(str) of a string of digits
RECURSIVE ParseInt(_)
ParseInt(str) ==
    IF Len(str) = 0 THEN 0
    ELSE 10 * ParseInt(SubSeq(str, 1, Len(str) - 1)) + DigitValue(Ch(str, Len(str)))

\* the maximal runs of word characters of str, in order: the stretches
\* that lie between two \b positions; each with the text that precedes it
\* since the run before
WordStarts(str) ==
    {i \in 1..Len(str) :
        IsWordChar(Ch(str, i)) /\ (i = 1 \/ ~IsWordChar(Ch(str, i - 1)))}

WordEnd(str, i) ==
    CHOOSE e \in i..Len(str) :
        /\ \A k \in i..e : IsWordChar(Ch(str, k))
        /\ (e = Len(str) \/ ~IsWordChar(Ch(str, e + 1)))

Tokens(str) ==
    Bind(WordStarts(str), LAMBDA starts :
        LET Nth(k) == CHOOSE i \in starts : Cardinality({x \in starts : x <= i}) = k
            PrevEnd(k) == IF k = 1 THEN 0 ELSE WordEnd(str, Nth(k - 1))
        IN <<>> \o [k \in 1..Cardinality(starts) |->
                    [w   |-> SubSeq(str, Nth(k), WordEnd(str, Nth(k))),
                     pre |-> SubSeq(str, PrevEnd(k) + 1, Nth(k) - 1)]])

\* \s+ between two tokens
SpaceBefore(tok) == Len(tok.pre) > 0 /\ AllChars(tok.pre, IsSpace)

StartsWith(str, prefix) ==
    Len(str) >= Len(prefix) /\ SubSeq(str, 1, Len(prefix)) = prefix

\* the least element of a non-empty set of integers
Least(S) == CHOOSE x \in S : \A y \in S : x <= y

(***************************************************************************)
(* preprocessing/entity-extractions.py                                     *)
(***************************************************************************)

AIRPORT_CODES == <<"CAI", "DXB", "JFK", "LHR", "FRA", "AMS", "CDG">>

\* dict order: economy, business, first
PASSENGER_CLASS_KEYWORDS ==
    << [norm |-> "economy",  kws |-> <<"economy", "eco">>],
       [norm |-> "business", kws |-> <<"business", "biz">>],
       [norm |-> "first",    kws |-> <<"first class", "first">>] >>

GENERATIONS_MAP ==
    << [key |-> "gen z",      val |-> "Gen Z"],
       [key |-> "millennial", val |-> "Millennial"],
       [key |-> "boomer",     val |-> "Boomer"],
       [key |-> "gen x",      val |-> "Gen X"],
       [key |-> "silent",     val |-> "Silent"] >>

FLEET_TYPES ==
    <<"A320", "A321", "A330", "A350", "A380", "B737", "B747", "B757",
      "B767", "B777", "B787">>

\* [A-Z]{3} as a whole word
IsCode(w) == Len(w) = 3 /\ AllChars(w, IsUpper)

\* [A-Z]{2}\d{2,4} as a whole word
IsFlightNo(w) ==
    /\ Len(w) \in 4..6
    /\ AllChars(SubSeq(w, 1, 2), IsUpper)
    /\ AllChars(SubSeq(w, 3, Len(w)), IsDigit)

\* FLIGHT_RE.search(text.upper())
extract_flight_number(txt) ==
    Bind(Tokens(upper(txt)), LAMBDA toks :
        Bind({k \in 1..Len(toks) : IsFlightNo(toks[k].w)}, LAMBDA hits :
            IF hits = {} THEN NoneStr ELSE toks[Least(hits)].w))

excluded_words ==
    {"THE", "AND", "FOR", "ARE", "YOU", "CAN", "ANY", "ALL", "TOP", "ASC",
     "DESC", "GEN", "NEW", "OLD", "BAD", "BIG", "ONE", "TWO", "GET", "GOT",
     "HAS", "HAD", "NOT", "BUT", "YET", "NOW", "HOW", "WHY", "WHO", "WAS",
     "WEE", "WAY", "LEG"}

\* AIRPORT_CODE_RE.findall(upper) without the excluded words
codes_found(toks) ==
    LET Keep(t) == IsCode(t.w) /\ t.w \notin excluded_words
    IN Bind(SelectSeq(toks, Keep), LAMBDA kept :
           <<>> \o [k \in 1..Len(kept) |-> kept[k].w])

\* the first ROUTE_RE match among the words, by the index of its second code
route_match(toks) ==
    Bind({k \in 2..Len(toks) :
             IsCode(toks[k - 1].w) /\ IsCode(toks[k].w) /\ toks[k].pre = "-"},
         LAMBDA routes : IF routes = {} THEN 0 ELSE Least(routes))

\* the scan of three-letter words alone, without the route pattern
extract_airports_scan_only(txt) ==
    LET pair(dep, arr) ==
            [dep |-> dep, arr |-> arr,
             route |-> IF dep # NoneStr /\ arr # NoneStr
                           THEN dep \o "-" \o arr ELSE NoneStr]
    IN Bind(Tokens(upper(txt)), LAMBDA toks :
       Bind(0, LAMBDA m :
       Bind(codes_found(toks), LAMBDA codes :
       Bind([from |-> Contains(lower(txt), "from"),
             to   |-> Contains(lower(txt), "to")], LAMBDA has :
           IF m # 0 THEN pair(toks[m - 1].w, toks[m].w)
           ELSE IF has.from /\ has.to /\ Len(codes) >= 2 THEN pair(codes[1], codes[2])
           ELSE IF Len(codes) = 2 THEN pair(codes[1], codes[2])
           ELSE IF has.from /\ Len(codes) >= 1 THEN pair(codes[1], NoneStr)
           ELSE IF has.to /\ Len(codes) >= 1 THEN pair(NoneStr, codes[1])
           ELSE pair(NoneStr, NoneStr)))))

extract_airports_and_route(txt) ==
    LET pair(dep, arr) ==
            [dep |-> dep, arr |-> arr,
             route |-> IF dep # NoneStr /\ arr # NoneStr
                           THEN dep \o "-" \o arr ELSE NoneStr]
    IN Bind(Tokens(upper(txt)), LAMBDA toks :
       Bind(route_match(toks), LAMBDA m :
       Bind(codes_found(toks), LAMBDA codes :
       Bind([from |-> Contains(lower(txt), "from"),
             to   |-> Contains(lower(txt), "to")], LAMBDA has :
           IF m # 0 THEN pair(toks[m - 1].w, toks[m].w)
           ELSE IF has.from /\ has.to /\ Len(codes) >= 2 THEN pair(codes[1], codes[2])
           ELSE IF Len(codes) = 2 THEN pair(codes[1], codes[2])
           ELSE IF has.from /\ Len(codes) >= 1 THEN pair(codes[1], NoneStr)
           ELSE IF has.to /\ Len(codes) >= 1 THEN pair(NoneStr, codes[1])
           ELSE pair(NoneStr, NoneStr)))))

extract_passenger_class(txt) ==
    Bind(lower(txt), LAMBDA low :
    Bind({i \in 1..Len(PASSENGER_CLASS_KEYWORDS) :
             AnyIn(low, {PASSENGER_CLASS_KEYWORDS[i].kws[j] :
                            j \in 1..Len(PASSENGER_CLASS_KEYWORDS[i].kws)})},
         LAMBDA hits :
             IF hits = {} THEN NoneStr
             ELSE PASSENGER_CLASS_KEYWORDS[Least(hits)].norm))

\* the matched keyword itself instead of its normalised name
extract_generation_keyword(txt) ==
    Bind(lower(txt), LAMBDA low :
    Bind({i \in 1..Len(GENERATIONS_MAP) : Contains(low, GENERATIONS_MAP[i].key)},
         LAMBDA hits :
             IF hits = {} THEN NoneStr ELSE GENERATIONS_MAP[Least(hits)].key))

extract_generation(txt) ==
    Bind(lower(txt), LAMBDA low :
    Bind({i \in 1..Len(GENERATIONS_MAP) : Contains(low, GENERATIONS_MAP[i].key)},
         LAMBDA hits :
             IF hits = {} THEN NoneStr ELSE GENERATIONS_MAP[Least(hits)].val))

extract_fleet_type(txt) ==
    Bind(upper(txt), LAMBDA up :
    Bind({i \in 1..Len(FLEET_TYPES) : Contains(up, FLEET_TYPES[i])},
         LAMBDA hits :
             IF hits = {} THEN NoneStr ELSE FLEET_TYPES[Least(hits)]))

\* datetime.date: proleptic Gregorian calendar
IsLeap(y) == (y % 4 = 0 /\ y % 100 # 0) \/ y % 400 = 0

DaysInMonth(y, m) ==
    IF m = 2 THEN (IF IsLeap(y) THEN 29 ELSE 28)
    ELSE IF m \in {4, 6, 9, 11} THEN 30 ELSE 31

\* today + timedelta(days=n)
RECURSIVE AddDays(_, _)
AddDays(day, n) ==
    IF n = 0 THEN day
    ELSE IF day.d < DaysInMonth(day.y, day.m)
        THEN AddDays([day EXCEPT !.d = day.d + 1], n - 1)
    ELSE IF day.m < 12
        THEN AddDays([y |-> day.y, m |-> day.m + 1, d |-> 1], n - 1)
    ELSE AddDays([y |-> day.y + 1, m |-> 1, d |-> 1], n - 1)

\* date.isoformat()
isoformat(day) ==
    ZeroPad(ToString(day.y), 4) \o "-" \o ZeroPad(ToString(day.m), 2)
        \o "-" \o ZeroPad(ToString(day.d), 2)

\* extract_date(text), today being date.today()
\* the first match of \b(20\d{2})-(\d{2})-(\d{2})\b, or None
date_match(txt) ==
    LET IsNum(w, n) == Len(w) = n /\ AllChars(w, IsDigit)
    IN Bind(Tokens(txt), LAMBDA toks :
       Bind({k \in 3..Len(toks) :
                /\ IsNum(toks[k - 2].w, 4) /\ StartsWith(toks[k - 2].w, "20")
                /\ IsNum(toks[k - 1].w, 2) /\ toks[k - 1].pre = "-"
                /\ IsNum(toks[k].w, 2) /\ toks[k].pre = "-"},
            LAMBDA hits :
                IF hits = {} THEN NoneStr
                ELSE Bind(Least(hits), LAMBDA k :
                         toks[k - 2].w \o "-" \o toks[k - 1].w \o "-" \o toks[k].w)))

\* "tomorrow" answered with the day of the call
extract_date_same_day(txt, today) ==
    Bind(lower(txt), LAMBDA low :
        IF Contains(low, "today") \/ Contains(low, "tomorrow") THEN isoformat(today)
        ELSE IF Contains(low, "next week") THEN isoformat(AddDays(today, 7))
        ELSE date_match(txt))

extract_date(txt, today) ==
    Bind(lower(txt), LAMBDA low :
        IF Contains(low, "today") THEN isoformat(today)
        ELSE IF Contains(low, "tomorrow") THEN isoformat(AddDays(today, 1))
        ELSE IF Contains(low, "next week") THEN isoformat(AddDays(today, 7))
        ELSE date_match(txt))

\* a whole word of digits
IsNumber(w) == Len(w) > 0 /\ AllChars(w, IsDigit)

\* the first match of \b(\d+)\s+legs?\b, or None
legs_match(low) ==
    Bind(Tokens(low), LAMBDA toks :
    Bind({k \in 2..Len(toks) :
             /\ IsNumber(toks[k - 1].w)
             /\ SpaceBefore(toks[k])
             /\ toks[k].w \in {"leg", "legs"}},
         LAMBDA hits :
             IF hits = {} THEN NoneVal
             ELSE Num(ParseInt(toks[Least(hits) - 1].w))))

extract_number_of_legs(txt) ==
    Bind(lower(txt), LAMBDA low :
        IF Contains(low, "non-stop") \/ Contains(low, "direct") THEN Num(1)
        ELSE IF Contains(low, "one leg") \/ Contains(low, "1 leg") THEN Num(1)
        ELSE legs_match(low))

desc_keywords ==
    {"longest", "worst", "most", "highest", "maximum", "max", "slowest",
     "largest", "biggest", "top", "greatest"}

asc_keywords ==
    {"shortest", "best", "least", "lowest", "minimum", "min", "fastest",
     "smallest", "bottom", "fewest"}

\* limit_patterns, in the order they are tried; each yields the number of
\* its leftmost match, or None
limit_patterns(low) ==
    Bind(Tokens(low), LAMBDA toks :
        LET \* \b<word>\s+(\d+)\b
            NumAfter(word) ==
                Bind({k \in 2..Len(toks) :
                         /\ toks[k - 1].w = word
                         /\ SpaceBefore(toks[k])
                         /\ IsNumber(toks[k].w)},
                     LAMBDA hits :
                         IF hits = {} THEN NoneVal
                         ELSE Num(ParseInt(toks[Least(hits)].w)))
            \* \b(\d+)\s+(?:flight|journey|result)
            NumBefore ==
                Bind({k \in 2..Len(toks) :
                         /\ IsNumber(toks[k - 1].w)
                         /\ SpaceBefore(toks[k])
                         /\ \E noun \in {"flight", "journey", "result"} :
                                StartsWith(toks[k].w, noun)},
                     LAMBDA hits :
                         IF hits = {} THEN NoneVal
                         ELSE Num(ParseInt(toks[Least(hits) - 1].w)))
        IN << NumAfter("top"), NumAfter("first"), NumAfter("the"), NumBefore,
              NumAfter("limit") >>)

\* the number of the first pattern that matches, or None
first_limit(low) ==
    Bind(limit_patterns(low), LAMBDA found :
    Bind({i \in 1..Len(found) : found[i] # NoneVal}, LAMBDA matched :
        IF matched = {} THEN NoneVal ELSE found[Least(matched)]))

sort_order_of(low) ==
    IF AnyIn(low, desc_keywords) THEN "DESC"
    ELSE IF AnyIn(low, asc_keywords) THEN "ASC"
    ELSE NoneStr

sort_attribute_of(low) ==
    IF AnyIn(low, {"delay", "late", "punctual", "on time", "arrival"})
        THEN "delay"
    ELSE IF AnyIn(low, {"distance", "miles", "far", "long haul", "short haul"})
        THEN "miles"
    ELSE IF AnyIn(low, {"food", "meal", "service quality", "satisfaction"})
        THEN "food_score"
    ELSE IF AnyIn(low, {"connection", "stop", "leg"}) THEN "legs"
    ELSE NoneStr

\* extract_superlatives keeping whatever number it found
extract_superlatives_no_default(txt) ==
    Bind(lower(txt), LAMBDA low :
        [sort_order |-> sort_order_of(low),
         sort_attribute |-> sort_attribute_of(low),
         limit |-> first_limit(low)])

extract_superlatives(txt) ==
    Bind(lower(txt), LAMBDA low :
    Bind(sort_order_of(low), LAMBDA order :
    Bind(first_limit(low), LAMBDA lim :
        [sort_order |-> order,
         sort_attribute |-> sort_attribute_of(low),
         limit |-> IF order # NoneStr /\ (lim = NoneVal \/ lim.v = 0)
                       THEN Num(10) ELSE lim])))

\* extract_entities(user_input): asdict(AirlineEntities(...))
extract_entities(user_input, today) ==
    Bind(extract_airports_and_route(user_input), LAMBDA airports :
    Bind(extract_superlatives(user_input), LAMBDA sup :
        [flight_no |-> extract_flight_number(user_input),
         departure_airport |-> airports.dep,
         arrival_airport |-> airports.arr,
         route |-> airports.route,
         passenger_class |-> extract_passenger_class(user_input),
         generation |-> extract_generation(user_input),
         fleet_type |-> extract_fleet_type(user_input),
         date |-> extract_date(user_input, today),
         sort_order |-> sup.sort_order,
         sort_attribute |-> sup.sort_attribute,
         limit |-> sup.limit,
         number_of_legs |-> extract_number_of_legs(user_input)]))

(***************************************************************************)
(* retrieval/query_executor.py, embeddings/similarity_search.py:           *)
(* the text each retrieval path makes of its own response                  *)
(***************************************************************************)

\* str.strip()
strip(str) ==
    IF \A i \in 1..Len(str) : IsSpace(Ch(str, i)) THEN ""
    ELSE LET first == CHOOSE i \in 1..Len(str) :
                 ~IsSpace(Ch(str, i)) /\ \A j \in 1..(i - 1) : IsSpace(Ch(str, j))
             tail == CHOOSE k \in 0..(Len(str) - 1) :
                 /\ ~IsSpace(Ch(str, Len(str) - k))
                 /\ \A j \in (Len(str) - k + 1)..Len(str) : IsSpace(Ch(str, j))
         IN SubSeq(str, first, Len(str) - tail)

\* f"{record.get(key, dflt)}" of a text-valued key
GetText(value, dflt) ==
    IF value = AbsentKey THEN dflt
    ELSE IF value = NoneStr THEN "None"
    ELSE value

\* _map_entities_to_params with the two airports exchanged
map_entities_to_params_swapped(intent, entities) ==
    [from_airport |-> entities.arrival_airport,
     to_airport |-> entities.departure_airport,
     passenger_class |-> entities.passenger_class,
     generation |-> entities.generation,
     number_of_legs |-> entities.number_of_legs,
     limit |-> IF entities.limit.p = "num" /\ entities.limit.v # 0
                   THEN entities.limit.v ELSE 20,
     station_code |->
         IF intent # "airport_info" THEN AbsentKey
         ELSE IF Truthy(entities.departure_airport)
             THEN entities.departure_airport
         ELSE entities.arrival_airport]

\* _map_entities_to_params(intent, entities)
map_entities_to_params(intent, entities) ==
    [from_airport |-> entities.departure_airport,
     to_airport |-> entities.arrival_airport,
     passenger_class |-> entities.passenger_class,
     generation |-> entities.generation,
     number_of_legs |-> entities.number_of_legs,
     limit |-> IF entities.limit.p = "num" /\ entities.limit.v # 0
                   THEN entities.limit.v ELSE 20,
     station_code |->
         IF intent # "airport_info" THEN AbsentKey
         ELSE IF Truthy(entities.departure_airport)
             THEN entities.departure_airport
         ELSE entities.arrival_airport]

\* one "Result i" block of QueryExecutor.format_results_for_llm
ExecutorResult(r, i) ==
    Join(<< "Result " \o ToString(i) \o ":",
            "Journey ID: " \o GetText(r.feedback_ID, "unknown"),
            "Passenger Class: Unknown",
            "Food Satisfaction: " \o GetStr(r.food_satisfaction_score, "N/A") \o "/5",
            "Arrival Delay: " \o GetStr(r.arrival_delay_minutes, "N/A") \o " minutes",
            "Distance: N/A miles",
            "Number of Legs: N/A",
            "Flight: N/A (N/A)",
            "Route: N/A -> N/A",
            "Passenger: N/A, N/A loyalty (Locator: N/A)",
            "\n" >>, "\n")

\* QueryExecutor.format_results_for_llm(query_response): the text, or the
\* exception formatting a None aggregate raises
executor_format_results_for_llm(h, query_response) ==
    LET results == query_response.results
        count == query_response.count
        intent == query_response.intent
        record == h[results[1]]
        avg_delay == GetOrZero(record.avg_delay)
        avg_food == GetOrZero(record.avg_food_score)
        avg_dist == GetOrZero(record.avg_distance)
        Text(t) == [raised |-> "", text |-> t]
    IN IF Truthy(query_response.error)
           THEN Text("Error executing query: " \o query_response.error)
       ELSE IF count = 0
           THEN Text("No results found in the knowledge graph for this query.")
       ELSE IF intent = "calculate_statistic"
           THEN IF avg_delay.p = "none" \/ avg_food.p = "none" \/ avg_dist.p = "none"
                THEN [raised |-> "TypeError", text |-> ""]
                ELSE Text(Join(
                    << "Statistical Analysis:",
                       "Total Journeys: " \o GetStr(GetOrZero(record.total_journeys), "0"),
                       "Average Delay: " \o FmtScaled(avg_delay.v, 2) \o " minutes",
                       "Average Food Satisfaction: " \o FmtScaled(avg_food.v, 2) \o "/5",
                       "Average Distance: " \o FmtScaled(avg_dist.v, 2) \o " miles",
                       "Delay Range: " \o GetStr(GetOrZero(record.min_delay), "0")
                           \o " to " \o GetStr(GetOrZero(record.max_delay), "0")
                           \o " minutes",
                       "" >>, "\n"))
       ELSE Text(strip(
                "Found " \o ToString(count) \o " result(s) for " \o intent \o ":\n\n"
                \o Join([i \in 1..Len(results) |-> ExecutorResult(h[results[i]], i)], "")))

\* one "Result i" block of SimilaritySearcher.format_results_for_llm
SearcherResult(r, i) ==
    Join(<< "Result " \o ToString(i) \o " (similarity: "
                \o FmtScaled(GetOrZero(r.score).v, 3) \o "):",
            "  - Journey ID: " \o GetText(r.feedback_ID, "unknown"),
            "  - Class: unknown",
            "  - Food satisfaction: " \o GetStr(r.food_satisfaction_score, "0") \o "/5",
            "  - Arrival delay: " \o GetStr(r.arrival_delay_minutes, "0") \o " minutes",
            "  - Distance: 0 miles",
            "  - Legs: 1",
            "\n" >>, "\n")

\* SimilaritySearcher.format_results_for_llm(search_response)
searcher_format_results_for_llm(h, search_response) ==
    LET results == search_response.results
    IN IF search_response.count = 0
           THEN "No similar journeys found in the knowledge graph."
       ELSE strip(
                "Found " \o ToString(search_response.count)
                \o " similar journeys for query: '" \o search_response.query \o "'\n\n"
                \o Join([i \in 1..Len(results) |-> SearcherResult(h[results[i]], i)], ""))

(***************************************************************************)
(* llm_layer/prompt_builder.py, llm_layer/llm_integrations_v2.py           *)
(***************************************************************************)

\* PromptBuilder._default_persona()
default_persona ==
    Join(<< "You are an airline company insights assistant. Your role is to analyze",
            "flight performance data and passenger satisfaction metrics to help the airline",
            "improve service quality. You provide factual, data-driven insights based on",
            "actual flight records and passenger feedback." >>, "\n")

\* build_prompt with the instruction block whatever the toggle
build_prompt_always_instructed(user_query, context, include_instructions) ==
    Join(
        << DoubleRule, "PERSONA:", DoubleRule, strip(default_persona), "",
           DoubleRule, "CONTEXT (Knowledge Graph Data):", DoubleRule,
           strip(context), "",
           DoubleRule, "TASK:", DoubleRule,
           "Answer the following question based ONLY on the CONTEXT provided above.",
           "" >>
        \o (IF TRUE
            THEN << "IMPORTANT INSTRUCTIONS:",
                    "1. Use ONLY the information provided in the CONTEXT section",
                    "2. If the CONTEXT doesn't contain enough information, say: 'I don't have sufficient data to answer this question'",
                    "3. Provide specific examples from the data (journey IDs, metrics, numbers)",
                    "4. Be concise and factual - avoid speculation",
                    "5. Do NOT make up or hallucinate any flight numbers, delays, or statistics",
                    "6. If you see conflicting data, mention both sources",
                    "" >>
            ELSE <<>>)
        \o << SingleRule, "USER QUESTION:", strip(user_query), SingleRule, "",
              "YOUR ANSWER:",
              "(Provide a clear, factual answer based on the CONTEXT above)",
              "" >>,
        "\n")

\* build_prompt(user_query, context, include_instructions)
build_prompt(user_query, context, include_instructions) ==
    Join(
        << DoubleRule, "PERSONA:", DoubleRule, strip(default_persona), "",
           DoubleRule, "CONTEXT (Knowledge Graph Data):", DoubleRule,
           strip(context), "",
           DoubleRule, "TASK:", DoubleRule,
           "Answer the following question based ONLY on the CONTEXT provided above.",
           "" >>
        \o (IF include_instructions
            THEN << "IMPORTANT INSTRUCTIONS:",
                    "1. Use ONLY the information provided in the CONTEXT section",
                    "2. If the CONTEXT doesn't contain enough information, say: 'I don't have sufficient data to answer this question'",
                    "3. Provide specific examples from the data (journey IDs, metrics, numbers)",
                    "4. Be concise and factual - avoid speculation",
                    "5. Do NOT make up or hallucinate any flight numbers, delays, or statistics",
                    "6. If you see conflicting data, mention both sources",
                    "" >>
            ELSE <<>>)
        \o << SingleRule, "USER QUESTION:", strip(user_query), SingleRule, "",
              "YOUR ANSWER:",
              "(Provide a clear, factual answer based on the CONTEXT above)",
              "" >>,
        "\n")

\* LLMIntegration.models
models ==
    << [key |-> "openai", name |-> "openai/gpt-oss-120b"],
       [key |-> "qwen",   name |-> "Qwen/Qwen2.5-7B-Instruct"],
       [key |-> "llama",  name |-> "meta-llama/Llama-3.1-8B-Instruct"] >>

ModelKeys == {models[i].key : i \in 1..Len(models)}

ModelName(key) == models[CHOOSE i \in 1..Len(models) : models[i].key = key].name

\* query_model answering a failed call with an empty answer
query_model_blank_answer(avail, model_key, outcome) ==
    IF ~avail \/ model_key \notin ModelKeys
        THEN [raised |-> "", called |-> FALSE,
              response |->
                  [status |-> "returned", model |-> model_key,
                   model_full_name |-> "N/A", answer |-> "",
                   success |-> FALSE, error |-> "Module not installed"]]
    ELSE [raised |-> "", called |-> TRUE,
          response |->
              [status |-> "returned", model |-> model_key,
               model_full_name |-> "",
               answer |-> IF outcome.ok THEN outcome.text ELSE "",
               success |-> outcome.ok,
               error |-> IF outcome.ok THEN NoneStr ELSE outcome.text]]

\* query_model(prompt, model_key) on an integration whose `available` flag
\* is avail, when the hosted call ends in `outcome` (the answer, or the
\* exception with its message): what it returns, or the exception it
\* raises. The measured response_time is left out.
query_model(avail, model_key, outcome) ==
    IF ~avail
        THEN [raised |-> "", called |-> FALSE,
              response |->
                  [status |-> "returned", model |-> model_key,
                   model_full_name |-> "N/A",
                   answer |-> "Error: huggingface_hub not installed. Run: pip install huggingface-hub",
                   success |-> FALSE, error |-> "Module not installed"]]
    ELSE IF model_key \notin ModelKeys
        THEN [raised |-> "ValueError", called |-> FALSE, response |-> NoLLMResponse]
    ELSE IF outcome.ok
        THEN [raised |-> "", called |-> TRUE,
              response |->
                  [status |-> "returned", model |-> model_key,
                   model_full_name |-> ModelName(model_key),
                   answer |-> outcome.text, success |-> TRUE, error |-> NoneStr]]
    ELSE [raised |-> "", called |-> TRUE,
          response |->
              [status |-> "returned", model |-> model_key,
               model_full_name |-> ModelName(model_key),
               answer |-> "Error: " \o outcome.text,
               success |-> FALSE, error |-> outcome.text]]

(***************************************************************************)
(* llm_layer/graph_rag_pipeline.py: answer_question, stage by stage        *)
(***************************************************************************)

\* the keys of QUERIES
QueryNames ==
    {"find_flights", "delay_analysis", "airport_info", "passenger_experience",
     "route_recommendation", "general_query", "most_delayed_flights",
     "shortest_journeys", "longest_journeys", "multi_leg_flights",
     "loyalty_analysis", "calculate_statistic"}

\* the general template whatever the intent
query_template_general(intent) == "general_query"

\* QUERIES.get(intent, QUERIES["general_query"]), by its key
query_template(intent) == IF intent \in QueryNames THEN intent ELSE "general_query"

\* execute_query reporting a failure without an "error" key
execute_query_no_error_key(intent, entities, outcome) ==
    [kind |-> "cypher", intent |-> intent,
     params |-> map_entities_to_params(intent, entities),
     results |-> outcome.rows, count |-> Len(outcome.rows),
     error |-> AbsentKey, query |-> query_template(intent)]

\* execute_query(intent, entities) when session.run ends in `outcome`:
\* the rows it yields, or the exception with its message
execute_query(intent, entities, outcome) ==
    LET params == map_entities_to_params(intent, entities)
    IN IF outcome.ok
       THEN [kind |-> "cypher", intent |-> intent, params |-> params,
             results |-> outcome.rows, count |-> Len(outcome.rows),
             error |-> AbsentKey, query |-> query_template(intent)]
       ELSE [kind |-> "cypher", intent |-> intent, params |-> params,
             results |-> <<>>, count |-> 0,
             error |-> outcome.text, query |-> query_template(intent)]

\* search_by_query(user_query, model_name, embedding_property, top_k) when
\* the encoder and the vector index answer with `rows`
search_by_query(user_query, rows) ==
    [kind |-> "embedding", intent |-> "unknown", params |-> NoParams,
     results |-> rows, count |-> Len(rows), error |-> AbsentKey,
     query |-> user_query]

\* GraphRAGPipeline(...): the constructor's defaults
default_model == "qwen"
embedding_model == "mpnet"
top_k == 5

\* rows either store returns at most
MaxRows == 2

\* journeys the graph store holds, as rows of the 13-column templates and
\* as rows of the vector index; the one row of the aggregate template,
\* over some journeys and over none
JourneyRows == {1, 9}
VectorRows == {5, 7}
AggregateRows == {3, 4}

\* what session.run(query_template, params) can do
GraphOutcomes(intent, params) ==
    {[ok |-> FALSE, rows |-> <<>>, text |-> t] : t \in {"", "Connection refused"}}
    \cup {[ok |-> TRUE, rows |-> rs, text |-> ""] :
            rs \in IF query_template(intent) = "calculate_statistic"
                   THEN {<<r>> : r \in AggregateRows}
                   ELSE {rs \in SeqsUpTo(JourneyRows, MaxRows) :
                            Len(rs) <= params.limit}}

\* what the hosted model can do with a prompt
HostedOutcomes ==
    { [ok |-> TRUE,  text |-> "Flights from CAI arrive 83 minutes late on average."],
      [ok |-> FALSE, text |-> "Read timed out"],
      [ok |-> FALSE, text |-> ""] }

\* exceptions the encoder or the vector index can raise
SearchFailures == {"ServiceUnavailable"}

Questions ==
    { "What is the average delay from CAI to DXB?",
      "  Show me the 5 worst delayed flights tomorrow ",
      "Tell me about airport JFK",
      "Which business class journeys had bad food?",
      "Show non-stop flights from CAI to DXB",
      "hello" }

Models == {NoneStr, "llama", "gemma"}

Days == {FirstDay}

PipelineInit ==
    /\ IntentIdle
    /\ CombinerIdle
    /\ pc = "start"
    /\ request \in [user_query : Questions, model : Models,
                    use_embeddings : BOOLEAN, use_cypher : BOOLEAN]
    /\ available \in BOOLEAN
    /\ cur_date \in Days
    /\ cur_intent = ""
    /\ cur_entities = NoEntities
    /\ prompt = ""
    /\ llm_response = NoLLMResponse
    /\ llm_calls = 0
    /\ raised = ""
    /\ trace = <<>>
    /\ bundle = NoBundle
    /\ LoaderIdle

\* [Step 1.a] intent = self.classify_intent(user_query)
ClassifyIntent ==
    /\ pc = "start"
    /\ cur_intent' = classify_intent(request.user_query)
    /\ pc' = "classified"
    /\ trace' = Append(trace, Event("classify", TRUE, ""))
    /\ UNCHANGED <<request, available, cur_date, cur_entities, prompt,
                   llm_response, llm_calls, raised, bundle>>
    /\ UNCHANGED <<intentVars, combinerVars>>
    /\ UNCHANGED loaderVars

\* [Step 1.b] entities = self.extract_entities(user_query)
ExtractEntities ==
    /\ pc = "classified"
    /\ cur_entities' = extract_entities(request.user_query, cur_date)
    /\ pc' = "extracted"
    /\ trace' = Append(trace, Event("extract", TRUE, ""))
    /\ UNCHANGED <<request, available, cur_date, cur_intent, prompt,
                   llm_response, llm_calls, raised, bundle>>
    /\ UNCHANGED <<intentVars, combinerVars>>
    /\ UNCHANGED loaderVars

\* [Step 2.a] if use_cypher: cypher_response = execute_query(intent, entities)
ExecuteQuery ==
    /\ pc = "extracted"
    /\ IF request.use_cypher
       THEN \E outcome \in GraphOutcomes(cur_intent,
                               map_entities_to_params(cur_intent, cur_entities)) :
                /\ cypher_response' = execute_query(cur_intent, cur_entities, outcome)
                /\ trace' = Append(trace, Event("query", outcome.ok, outcome.text))
       ELSE UNCHANGED <<cypher_response, trace>>
    /\ pc' = "queried"
    /\ UNCHANGED <<heap, embedding_response, max_results, combined, previous>>
    /\ UNCHANGED <<request, available, cur_date, cur_intent, cur_entities, prompt,
                   llm_response, llm_calls, raised, bundle>>
    /\ UNCHANGED intentVars
    /\ UNCHANGED loaderVars

\* [Step 2.b] if use_embeddings: embedding_response = search_by_query(...),
\* which embeds the question with the searcher's model and asks the index;
\* an exception of the index leaves answer_question
SearchByQuery ==
    /\ pc = "queried"
    /\ \/ /\ ~request.use_embeddings
          /\ pc' = "searched"
          /\ UNCHANGED <<embedding_response, raised, trace, searcher_models, loads>>
       \/ /\ request.use_embeddings
          /\ \E out \in {load_model(searcher_models, embedding_model_names[embedding_model],
                                    Fresh, TRUE)} :
                /\ searcher_models' = out.cached
                /\ loads' = Append(loads, LoadEvent(out))
          /\ \E rows \in SeqsUpTo(VectorRows, MaxRows) :
                /\ Len(rows) <= top_k
                /\ embedding_response' = search_by_query(request.user_query, rows)
          /\ pc' = "searched"
          /\ trace' = Append(trace, Event("search", TRUE, ""))
          /\ UNCHANGED raised
       \/ /\ request.use_embeddings
          /\ \E out \in {load_model(searcher_models, embedding_model_names[embedding_model],
                                    Fresh, TRUE)} :
                /\ searcher_models' = out.cached
                /\ loads' = Append(loads, LoadEvent(out))
          /\ \E e \in SearchFailures :
                /\ raised' = e
                /\ trace' = Append(trace, Event("search", FALSE, e))
          /\ pc' = "raised"
          /\ UNCHANGED embedding_response
    /\ UNCHANGED <<heap, cypher_response, max_results, combined, previous>>
    /\ UNCHANGED <<request, available, cur_date, cur_intent, cur_entities, prompt,
                   llm_response, llm_calls, bundle>>
    /\ UNCHANGED <<intentVars, loaded_models>>

\* the placeholder whatever the retrieval path has formatted
ContextPlaceholder(context) ==
    [NoCombined EXCEPT !.status = "context", !.formatted_context = "No data found."]

\* a dict holding only "formatted_context"
ContextOnly(context) ==
    [NoCombined EXCEPT !.status = "context", !.formatted_context = context]

\* [Step 3.a] the four-way choice of the context (lines 156-163)
Combine ==
    /\ pc = "searched"
    /\ trace' = Append(trace, Event("combine", TRUE, ""))
    /\ IF cypher_response.kind # "none" /\ embedding_response.kind # "none"
       THEN \E both \in {combine_results(heap, cypher_response,
                                          embedding_response, max_results)} :
               /\ heap' = both.heap
               /\ IF both.out.status = "ok"
                  THEN combined' = both.out /\ pc' = "combined" /\ UNCHANGED raised
                  ELSE raised' = both.out.status /\ pc' = "raised"
                           /\ UNCHANGED combined
       ELSE IF cypher_response.kind # "none"
       THEN \E only \in {executor_format_results_for_llm(heap, cypher_response)} :
               /\ UNCHANGED heap
               /\ IF only.raised = ""
                  THEN combined' = ContextOnly(only.text) /\ pc' = "combined"
                           /\ UNCHANGED raised
                  ELSE raised' = only.raised /\ pc' = "raised" /\ UNCHANGED combined
       ELSE IF embedding_response.kind # "none"
       THEN /\ combined' = ContextOnly(
                    searcher_format_results_for_llm(heap, embedding_response))
            /\ pc' = "combined"
            /\ UNCHANGED <<heap, raised>>
       ELSE /\ combined' = ContextOnly("No data found.")
            /\ pc' = "combined"
            /\ UNCHANGED <<heap, raised>>
    /\ UNCHANGED <<cypher_response, embedding_response, max_results, previous>>
    /\ UNCHANGED <<request, available, cur_date, cur_intent, cur_entities, prompt,
                   llm_response, llm_calls, bundle>>
    /\ UNCHANGED intentVars
    /\ UNCHANGED loaderVars

\* [Step 3.b] prompt = build_prompt(user_query, combined["formatted_context"])
BuildPrompt ==
    /\ pc = "combined"
    /\ prompt' = build_prompt(request.user_query, combined.formatted_context, TRUE)
    /\ pc' = "prompted"
    /\ trace' = Append(trace, Event("prompt", TRUE, ""))
    /\ UNCHANGED <<request, available, cur_date, cur_intent, cur_entities,
                   llm_response, llm_calls, raised, bundle>>
    /\ UNCHANGED <<intentVars, combinerVars>>
    /\ UNCHANGED loaderVars

\* [Step 3.c] llm_response = self.llm.query_model(prompt, model_key=model),
\* model being `model or self.default_model`
QueryModel ==
    /\ pc = "prompted"
    /\ \E outcome \in HostedOutcomes :
          LET model == IF request.model = NoneStr THEN default_model
                       ELSE request.model
              res == query_model(available, model, outcome)
          IN /\ llm_calls' = llm_calls + (IF res.called THEN 1 ELSE 0)
             /\ trace' = Append(trace,
                    IF res.called THEN Event("model", outcome.ok, outcome.text)
                    ELSE Event("model_refused", FALSE, ""))
             /\ IF res.raised = ""
                THEN llm_response' = res.response /\ pc' = "answered"
                         /\ UNCHANGED raised
                ELSE raised' = res.raised /\ pc' = "raised"
                         /\ UNCHANGED llm_response
    /\ UNCHANGED <<request, available, cur_date, cur_intent, cur_entities, prompt,
                   bundle>>
    /\ UNCHANGED <<intentVars, combinerVars>>
    /\ UNCHANGED loaderVars

\* a bundle that reports success whenever it is returned
ReturnSuccess ==
    /\ pc = "answered"
    /\ bundle' = [status |-> "returned",
                  user_query |-> request.user_query,
                  intent |-> cur_intent,
                  entities |-> cur_entities,
                  cypher_results |-> cypher_response,
                  embedding_results |-> embedding_response,
                  combined_context |-> combined.formatted_context,
                  prompt |-> prompt,
                  llm_response |-> llm_response,
                  answer |-> llm_response.answer,
                  success |-> TRUE]
    /\ pc' = "done"
    /\ UNCHANGED <<request, available, cur_date, cur_intent, cur_entities, prompt,
                   llm_response, llm_calls, raised, trace>>
    /\ UNCHANGED <<intentVars, combinerVars>>
    /\ UNCHANGED loaderVars

\* the return statement (lines 182-193)
Return ==
    /\ pc = "answered"
    /\ bundle' = [status |-> "returned",
                  user_query |-> request.user_query,
                  intent |-> cur_intent,
                  entities |-> cur_entities,
                  cypher_results |-> cypher_response,
                  embedding_results |-> embedding_response,
                  combined_context |-> combined.formatted_context,
                  prompt |-> prompt,
                  llm_response |-> llm_response,
                  answer |-> llm_response.answer,
                  success |-> llm_response.success]
    /\ pc' = "done"
    /\ UNCHANGED <<request, available, cur_date, cur_intent, cur_entities, prompt,
                   llm_response, llm_calls, raised, trace>>
    /\ UNCHANGED <<intentVars, combinerVars>>
    /\ UNCHANGED loaderVars

PipelineNext ==
    \/ ClassifyIntent
    \/ ExtractEntities
    \/ ExecuteQuery
    \/ SearchByQuery
    \/ Combine
    \/ BuildPrompt
    \/ QueryModel
    \/ Return

SpecPipeline == PipelineInit /\ [][PipelineNext]_vars

(***************************************************************************)
(* execute_query called on its own, for every intent and entity record     *)
(***************************************************************************)

ExecutorIntents == QueryNames \cup {"book_flight", ""}

\* a question naming a flight, an aircraft type and a number of legs
FlightQuestion == "Gen Z in economy on MS985, a B787 with 2 legs"

ExecutorEntities ==
    {NoEntities}
    \cup {extract_entities(q, FirstDay) : q \in Questions \cup {FlightQuestion}}

ExecutorInit ==
    /\ IntentIdle
    /\ CombinerIdle
    /\ pc = "extracted"
    /\ request = [NoRequest EXCEPT !.use_embeddings = FALSE]
    /\ available = TRUE
    /\ cur_date = FirstDay
    /\ cur_intent \in ExecutorIntents
    /\ cur_entities \in ExecutorEntities
    /\ prompt = ""
    /\ llm_response = NoLLMResponse
    /\ llm_calls = 0
    /\ raised = ""
    /\ trace = <<>>
    /\ bundle = NoBundle
    /\ LoaderIdle

ExecutorNext == ExecuteQuery

SpecExecutor == ExecutorInit /\ [][ExecutorNext]_vars

(***************************************************************************)
(* Properties of the pipeline's error handling                             *)
(***************************************************************************)

\* the events of one stage in the trace
EventsOf(stage) == {i \in 1..Len(trace) : trace[i].stage = stage}

\* the collaborator of the stage ended in an exception
StageFailed(stage) == \E i \in EventsOf(stage) : ~trace[i].ok

\* the message of that exception
FailureText(stage) ==
    trace[CHOOSE i \in EventsOf(stage) : ~trace[i].ok].text

Finished == pc \in {"done", "raised"}

\* C4, as the specification states it: whatever happens in a stage,
\* answer_question raises nothing, and once it is over it has returned a
\* bundle.
Cex_C4_AlwaysReturnsBundle ==
    /\ raised = ""
    /\ Finished => bundle.status = "returned"

\* C5, as the specification states it: after a failed hosted call the
\* response has success false, a non-empty error message and an empty or
\* absent answer, and nothing is raised.
Cex_C5_FailedCallLeavesNoAnswer ==
    StageFailed("model") =>
        /\ raised = ""
        /\ llm_response.success = FALSE
        /\ llm_response.error \notin {"", NoneStr}
        /\ llm_response.answer \in {"", NoneStr}

\* C5, amended: after a failed hosted call query_model raises nothing and
\* returns success false, the exception's message as the error (empty when
\* the exception has none) and "Error: " followed by that message as the
\* answer; the bundle returned for the question carries the intent, the
\* entities and the two retrieval responses of the earlier stages.
Thm_C5_FailedCallReportedInAnswer ==
    StageFailed("model") =>
        /\ raised = ""
        /\ pc \in {"answered", "done"}
        /\ llm_response.success = FALSE
        /\ llm_response.error = FailureText("model")
        /\ llm_response.answer = "Error: " \o FailureText("model")
        /\ pc = "done" =>
              /\ bundle.status = "returned"
              /\ bundle.success = FALSE
              /\ bundle.answer = "Error: " \o FailureText("model")
              /\ EventsOf("classify") # {} /\ bundle.intent = cur_intent
              /\ EventsOf("extract") # {} /\ bundle.entities = cur_entities
              /\ bundle.cypher_results = cypher_response
              /\ bundle.embedding_results = embedding_response
              /\ request.use_cypher => bundle.cypher_results.kind = "cypher"
              /\ request.use_embeddings => bundle.embedding_results.kind = "embedding"

Wit_C5_TimeoutAfterRetrieval ==
    /\ pc = "done"
    /\ StageFailed("model")
    /\ bundle.llm_response.error = "Read timed out"
    /\ bundle.answer = "Error: Read timed out"
    /\ bundle.cypher_results.count > 0
    /\ bundle.embedding_results.count > 0
    /\ bundle.entities.departure_airport = "CAI"

\* C6: execute_query raises nothing; when running the query fails its
\* response has an error field (the exception's message), no results and
\* count 0; in every response count is the length of results.
Thm_C6_QueryFailureIsStructured ==
    cypher_response.kind = "cypher" =>
        /\ raised = ""
        /\ pc # "raised"
        /\ cypher_response.count = Len(cypher_response.results)
        /\ StageFailed("query") =>
              /\ cypher_response.error # AbsentKey
              /\ cypher_response.error = FailureText("query")
              /\ cypher_response.results = <<>>
              /\ cypher_response.count = 0

Wit_C6_FailedQueryOfUnknownIntent ==
    /\ cypher_response.kind = "cypher"
    /\ StageFailed("query")
    /\ cypher_response.intent = "book_flight"
    /\ cypher_response.params.from_airport = "CAI"
    /\ cypher_response.error = "Connection refused"

\* C7, as the specification states it: a failure of the encoder or of the
\* vector index is kept inside the searcher, which answers with an error
\* field and no results, and answer_question goes on.
Cex_C7_SearchFailureContained ==
    StageFailed("search") =>
        /\ raised = ""
        /\ pc # "raised"
        /\ embedding_response.kind = "embedding"
        /\ embedding_response.error # AbsentKey
        /\ embedding_response.count = 0

\* the four-way choice of the context has been made
ContextChosen == combined.status # "none"

OnlyStructured == request.use_cypher /\ ~request.use_embeddings

OnlySemantic == ~request.use_cypher /\ request.use_embeddings

BothPaths == request.use_cypher /\ request.use_embeddings

NoPath == ~request.use_cypher /\ ~request.use_embeddings

\* C14: with exactly one retrieval path enabled the context given to
\* build_prompt is the text that path's own format_results_for_llm makes of
\* its response; with no path enabled it is "No data found."; the result
\* combiner runs only when both paths are enabled.
Thm_C14_ContextByEnabledPaths ==
    ContextChosen =>
        /\ OnlyStructured =>
              combined.formatted_context
                  = executor_format_results_for_llm(heap, cypher_response).text
        /\ OnlySemantic =>
              combined.formatted_context
                  = searcher_format_results_for_llm(heap, embedding_response)
        /\ NoPath => combined.formatted_context = "No data found."
        /\ (combined.status = "ok") <=> BothPaths
        /\ ~BothPaths => heap = Pool
        /\ prompt # "" =>
              prompt = build_prompt(request.user_query,
                                    combined.formatted_context, TRUE)

\* a bundle made from the semantic path alone, two journeys found
Wit_C14_SemanticPathAlone ==
    /\ pc = "done"
    /\ OnlySemantic
    /\ embedding_response.count = 2
    /\ bundle.combined_context
           = searcher_format_results_for_llm(heap, embedding_response)
    /\ bundle.combined_context # "No data found."

\* both paths ran and neither found a record
BothEmpty ==
    /\ ContextChosen
    /\ BothPaths
    /\ cypher_response.count = 0
    /\ embedding_response.count = 0

\* the listing the combiner makes of two empty lists
EmptyListing(intent) ==
    "KNOWLEDGE GRAPH DATA (Intent: " \o intent \o "):\n"
    \o DoubleRule \o "\n"
    \o "\n1. EXACT MATCHES: No exact matches found.\n"
    \o "\n2. SEMANTIC MATCHES: No similar journeys found.\n"
    \o "\n3. SUMMARY:\n"
    \o SingleRule \o "\n"
    \o "Total unique journeys found: 0\n"
    \o "From exact database queries: 0\n"
    \o "From semantic similarity: 0\n"
    \o DoubleRule

\* C15, as the code has it: when both paths are enabled and both return zero
\* records, the context is the combiner's own three-section listing with its
\* two "no matches" lines and a summary of zeros, not the placeholder; the
\* prompt is built from it and query_model is called with that prompt.
Thm_C15_EmptyGivesEmptyListing ==
    BothEmpty =>
        /\ combined.formatted_context = EmptyListing(cur_intent)
        /\ combined.total_count = 0
        /\ pc \in {"answered", "done"} =>
              /\ prompt = build_prompt(request.user_query,
                                       EmptyListing(cur_intent), TRUE)
              /\ EventsOf("model") \cup EventsOf("model_refused") # {}
              /\ available => llm_calls = 1
        /\ pc = "done" => bundle.prompt = prompt

\* a bundle returned after both paths found nothing and the model answered
Wit_C15_AnswerOverNothingFound ==
    /\ pc = "done"
    /\ BothEmpty
    /\ cypher_response.error = ""
    /\ llm_calls = 1
    /\ bundle.success
    /\ bundle.combined_context = EmptyListing(cur_intent)

\* C15: when both paths are enabled and both return zero records, the
\* context handed to build_prompt is the placeholder "No data found." of the
\* case in which both paths are disabled.
Cex_C15_EmptyDegradesToPlaceholder ==
    BothEmpty => combined.formatted_context = "No data found."

\* the hosted call was made and came back without an exception
ModelCallSucceeded == \E i \in EventsOf("model") : trace[i].ok

\* C16: in every returned bundle success is the success flag of the model
\* response and answer is its answer; the flag follows the model call alone,
\* whatever the retrieval paths did.
Thm_C16_BundleMirrorsModelResponse ==
    pc = "done" =>
        /\ bundle.success = llm_response.success
        /\ bundle.answer = llm_response.answer
        /\ bundle.llm_response = llm_response
        /\ bundle.success <=> ModelCallSucceeded

\* a successful bundle although the structured query failed and the
\* semantic search found nothing
Wit_C16_SuccessOverFailedRetrieval ==
    /\ pc = "done"
    /\ StageFailed("query")
    /\ BothEmpty
    /\ bundle.success
    /\ bundle.answer = llm_response.answer

(***************************************************************************)
(* Further properties of combine_results                                   *)
(***************************************************************************)

HeaderText == Join(Header(cypher_response.intent), "\n") \o "\n"

\* the context is the statistics block: the aggregate record under the
\* list of active filters, and none of the numbered sections
StatisticsBlock ==
    /\ StartsWith(combined.formatted_context,
                  HeaderText \o "STATISTICAL ANALYSIS:\nFilters Applied: "
                      \o (IF Len(ActiveFilters(cypher_response.params)) > 0
                          THEN Join(ActiveFilters(cypher_response.params), ", ")
                          ELSE "None (Global Statistics)")
                      \o "\n" \o SingleRule \o "\nTotal Journeys: ")
    /\ ~Contains(combined.formatted_context, "\n3. SUMMARY:")
    /\ ~Contains(combined.formatted_context, "\n1. EXACT MATCHES")
    /\ ~Contains(combined.formatted_context, "\n2. SEMANTIC MATCHES")

\* the context is the listing: exact matches, semantic matches, summary
ListingBlock ==
    /\ StartsWith(combined.formatted_context, HeaderText \o "\n1. EXACT MATCHES")
    /\ Contains(combined.formatted_context, "\n\n2. SEMANTIC MATCHES")
    /\ Contains(combined.formatted_context, "\n\n3. SUMMARY:\n")
    /\ ~Contains(combined.formatted_context, "STATISTICAL ANALYSIS:")

StatisticIntent == cypher_response.intent = "calculate_statistic"

\* C17, as the specification states it: the statistics block is rendered
\* whenever the intent is calculate_statistic, the listing for every other
\* intent; the intent alone decides.
Cex_C17_IntentAloneDecides ==
    Returned => (IF StatisticIntent THEN StatisticsBlock ELSE ListingBlock)

\* C17, as the code has it: the statistics block is rendered when the intent
\* is calculate_statistic and the truncated structured list is not empty, the
\* listing otherwise; a statistics record with a None average makes the
\* call raise TypeError instead of returning.
Thm_C17_StatisticsNeedARecord ==
    /\ Returned =>
          (IF StatisticIntent /\ Len(CyIn) > 0 THEN StatisticsBlock ELSE ListingBlock)
    /\ combined.status \notin {"none", "ok"} =>
          /\ combined.status = "TypeError"
          /\ StatisticIntent
          /\ Len(CyIn) > 0
          /\ \E f \in {"avg_delay", "avg_food_score", "avg_distance"} :
                heap[CyIn[1]][f] = NoneVal

\* a statistics question whose structured list is empty but whose semantic
\* list is not: the listing is rendered
Wit_C17_StatisticsWithoutRecord ==
    /\ Returned
    /\ StatisticIntent
    /\ Len(CyIn) = 0
    /\ Len(EmIn) = 2
    /\ ListingBlock

\* the first n elements of seq, all of them when it has fewer
Prefix(seq, n) == SubSeq(seq, 1, IF Len(seq) < n THEN Len(seq) ELSE n)

\* C18: each input list is cut to its first max_results records before the
\* merge: the returned cypher_results and embedding_results are prefixes of
\* the inputs of at most max_results records, unique_results is drawn from
\* those prefixes, total_count is its length and at most the sum of the two
\* truncated lengths.
Thm_C18_TruncatedBeforeMerge ==
    Returned =>
        /\ combined.cypher_results = Prefix(cypher_response.results, max_results)
        /\ combined.embedding_results = Prefix(embedding_response.results, max_results)
        /\ Len(combined.cypher_results) <= max_results
        /\ Len(combined.embedding_results) <= max_results
        /\ Range(combined.unique_results)
               \subseteq Range(combined.cypher_results)
                             \cup Range(combined.embedding_results)
        /\ combined.total_count = Len(combined.unique_results)
        /\ combined.total_count
               <= Len(combined.cypher_results) + Len(combined.embedding_results)

\* two lists of two records each cut to one record each
Wit_C18_BothListsCut ==
    /\ Returned
    /\ max_results = 1
    /\ Len(cypher_response.results) = 2
    /\ Len(embedding_response.results) = 2
    /\ cypher_response.results[1] # cypher_response.results[2]
    /\ combined.total_count = 2

\* no record of the returned unique_results has a number in the field
NoNumeric(field) ==
    \A i \in 1..Len(combined.unique_results) :
        heap[combined.unique_results[i]][field].p # "num"

\* the call was made in a case that renders the listing
ListingCase ==
    /\ combined.status # "none"
    /\ ~(StatisticIntent /\ Len(CyIn) > 0)

Queried == cypher_response.kind = "cypher"

\* the text fields and the integer fields the specification lists as bound
ListedTextFields ==
    {"departure_airport", "arrival_airport", "flight_no", "passenger_class",
     "generation", "fleet_type", "date", "sort_order", "sort_attribute"}
ListedIntFields == {"limit", "number_of_legs"}

\* the values bound to the parameters of the query
BoundTexts ==
    {cypher_response.params[k] :
        k \in {"from_airport", "to_airport", "passenger_class", "generation",
               "station_code"}} \ {NoneStr, AbsentKey}
BoundInts ==
    {cypher_response.params.limit}
    \cup (IF cypher_response.params.number_of_legs.p = "num"
          THEN {cypher_response.params.number_of_legs.v} ELSE {})

\* C20, as the specification states it: every listed entity field is bound
\* as a parameter, a null one as null.
Cex_C20_EveryFieldBound ==
    Queried =>
        /\ \A f \in ListedTextFields :
              cur_entities[f] # NoneStr => cur_entities[f] \in BoundTexts
        /\ \A f \in ListedIntFields :
              cur_entities[f].p = "num" => cur_entities[f].v \in BoundInts
        /\ BoundTexts \subseteq {cur_entities[f] : f \in ListedTextFields}

\* the entity record without the fields no parameter is made of
WithoutUnbound(e) ==
    [e EXCEPT !.flight_no = NoneStr, !.fleet_type = NoneStr, !.date = NoneStr,
              !.route = NoneStr, !.sort_order = NoneStr,
              !.sort_attribute = NoneStr]

\* C20, as the code has it: the parameters are the two airports, the
\* passenger class, the generation and the number of legs, each null when
\* the entity is null; limit, which is 20 when the entity is null or 0; and,
\* for airport_info only, station_code, the departure airport or else the
\* arrival airport.  Flight number, fleet type, date, route, sort order and
\* sort attribute change nothing in the parameters.
Thm_C20_FiveFiltersAndLimit ==
    Queried =>
        /\ DOMAIN cypher_response.params
               = {"from_airport", "to_airport", "passenger_class", "generation",
                  "number_of_legs", "limit", "station_code"}
        /\ cypher_response.params.from_airport = cur_entities.departure_airport
        /\ cypher_response.params.to_airport = cur_entities.arrival_airport
        /\ cypher_response.params.passenger_class = cur_entities.passenger_class
        /\ cypher_response.params.generation = cur_entities.generation
        /\ cypher_response.params.number_of_legs = cur_entities.number_of_legs
        /\ cypher_response.params.limit
               = (IF cur_entities.limit \in {NoneVal, Num(0)} THEN 20
                  ELSE cur_entities.limit.v)
        /\ cypher_response.params.station_code
               = (IF cur_intent # "airport_info" THEN AbsentKey
                  ELSE IF cur_entities.departure_airport # NoneStr
                      THEN cur_entities.departure_airport
                  ELSE cur_entities.arrival_airport)
        /\ cypher_response.params
               = map_entities_to_params(cur_intent, WithoutUnbound(cur_entities))
        /\ cypher_response.query = query_template(cur_intent)

\* a query made for a question that names a flight and an aircraft type
Wit_C20_FlightNumberNotBound ==
    /\ Queried
    /\ cur_entities.flight_no = "MS985"
    /\ cur_entities.fleet_type = "B787"
    /\ cypher_response.params.generation = "Gen Z"
    /\ cypher_response.params.number_of_legs = Num(2)
    /\ cypher_response.params.limit = 20
    /\ "MS985" \notin BoundTexts

(***************************************************************************)
(* extract_entities called on its own                                      *)
(***************************************************************************)

\* the phrases the texts are made of
Phrases ==
    << "from CAI", "to DXB", "top 5", "shortest", "worst delay",
       "tomorrow", "non-stop", "2 legs" >>

\* a text has at most MaxPhrases phrases
MaxPhrases == 2

RECURSIVE JoinPhrases(_)
JoinPhrases(ps) ==
    IF Len(ps) = 0 THEN ""
    ELSE IF Len(ps) = 1 THEN Phrases[ps[1]]
    ELSE Phrases[ps[1]] \o " " \o JoinPhrases(Tail(ps))

\* the two scenarios of the specification, and malformed input
ScenarioTexts ==
    { "Show me flights from CAI to DXB tomorrow in economy",
      "top 5 shortest journeys",
      "to DXB from CAI",
      "first 0 results",
      "top 0 flights",
      "worst flights limit 0",
      "the 3 best meals, limit 7",
      "from CAI to DXB, not JFK-LHR",
      "JFK-LHR, 3 flights",
      "?? 20-1 --- 12345678 legs\n\tgen zz B7877 _x_",
      "Gen X millennials on a b787, biz class, next week or 2026-01-02" }

EntityTexts ==
    ScenarioTexts
    \cup {JoinPhrases(ps) :
            ps \in UNION {[1..n -> 1..Len(Phrases)] : n \in 0..MaxPhrases}}

\* the days the calls are made on
EntityDays ==
    { FirstDay, [y |-> 2025, m |-> 12, d |-> 31] }

EntitiesInit ==
    /\ text \in EntityTexts
    /\ label = Pending
    /\ CombinerIdle
    /\ pc = "idle"
    /\ request = NoRequest
    /\ available = TRUE
    /\ cur_date \in EntityDays
    /\ cur_intent = ""
    /\ cur_entities = NoEntities
    /\ prompt = ""
    /\ llm_response = NoLLMResponse
    /\ llm_calls = 0
    /\ raised = ""
    /\ trace = <<>>
    /\ bundle = NoBundle
    /\ LoaderIdle

\* one call of extract_entities(text)
ExtractOnly ==
    /\ pc = "idle"
    /\ cur_entities' = extract_entities(text, cur_date)
    /\ pc' = "extracted"
    /\ UNCHANGED <<request, available, cur_date, cur_intent, prompt,
                   llm_response, llm_calls, raised, trace, bundle>>
    /\ UNCHANGED <<intentVars, combinerVars>>
    /\ UNCHANGED loaderVars

EntitiesNext == ExtractOnly

SpecEntities == EntitiesInit /\ [][EntitiesNext]_vars

(***************************************************************************)
(* Properties of extract_entities                                          *)
(***************************************************************************)

Extracted == pc = "extracted"

EntityFields ==
    {"flight_no", "departure_airport", "arrival_airport", "route",
     "passenger_class", "generation", "fleet_type", "date", "sort_order",
     "sort_attribute", "limit", "number_of_legs"}

\* Optional[int]
OptionalInt(x) == x = NoneVal \/ (x.p = "num" /\ x.v \in Int)

\* Optional[str]
OptionalStr(x) == x = NoneStr \/ (x \in STRING /\ x # AbsentKey)

WellTyped(e) ==
    /\ DOMAIN e = EntityFields
    /\ \A f \in EntityFields \ {"limit", "number_of_legs"} : OptionalStr(e[f])
    /\ e.passenger_class \in {NoneStr, "economy", "business", "first"}
    /\ e.generation \in {NoneStr, "Gen Z", "Millennial", "Boomer", "Gen X", "Silent"}
    /\ e.sort_order \in {NoneStr, "ASC", "DESC"}
    /\ e.sort_attribute \in {NoneStr, "delay", "miles", "food_score", "legs"}
    /\ OptionalInt(e.limit)
    /\ OptionalInt(e.number_of_legs)

DayAfter(day) ==
    IF day = [y |-> 2024, m |-> 2, d |-> 28] THEN "2024-02-29"
    ELSE IF day = [y |-> 2025, m |-> 12, d |-> 31] THEN "2026-01-01"
    ELSE "<unlisted>"

FlightSearchText == "Show me flights from CAI to DXB tomorrow in economy"

\* C12: "Show me flights from CAI to DXB tomorrow in economy" yields
\* departure_airport CAI, arrival_airport DXB, passenger_class economy and
\* the ISO date of the day after the day of the call.
Thm_C12_FlightSearchScenario ==
    (Extracted /\ text = FlightSearchText) =>
        /\ cur_entities.departure_airport = "CAI"
        /\ cur_entities.arrival_airport = "DXB"
        /\ cur_entities.passenger_class = "economy"
        /\ cur_entities.date = DayAfter(cur_date)

\* the scenario extracted on the last day of a year
Wit_C12_ScenarioOnNewYearsEve ==
    /\ Extracted
    /\ text = FlightSearchText
    /\ cur_date = [y |-> 2025, m |-> 12, d |-> 31]
    /\ cur_entities.date = "2026-01-01"

ShortestText == "top 5 shortest journeys"

\* C13: "top 5 shortest journeys" yields sort_order ASC, sort_attribute
\* miles and limit 5.
Cex_C13_ShortestScenario ==
    (Extracted /\ text = ShortestText) =>
        /\ cur_entities.sort_order = "ASC"
        /\ cur_entities.sort_attribute = "miles"
        /\ cur_entities.limit = Num(5)

(***************************************************************************)
(* Questions put to classify_intent                                        *)
(***************************************************************************)

\* the words questions are made of
Words == <<"average", "Mean", "country", "longest", "worst", "delay", "late",
           "flight", "shortest", "stop", "loyalty", "from", "airport", "food",
           "recommend", "hello">>

\* a question has at most MaxWords words
MaxWords == 2

RECURSIVE JoinWords(_)
JoinWords(ws) ==
    IF Len(ws) = 0 THEN ""
    ELSE IF Len(ws) = 1 THEN Words[ws[1]]
    ELSE Words[ws[1]] \o " " \o JoinWords(Tail(ws))

Texts == {JoinWords(ws) : ws \in UNION {[1..n -> 1..Len(Words)] : n \in 0..MaxWords}}

IntentInit ==
    /\ text \in Texts
    /\ label = Pending
    /\ CombinerIdle
    /\ PipelineIdle
    /\ LoaderIdle

\* one call of classify_intent(text)
Classify ==
    /\ label = Pending
    /\ label' = classify_intent(text)
    /\ UNCHANGED text
    /\ UNCHANGED combinerVars
    /\ UNCHANGED pipelineVars
    /\ UNCHANGED loaderVars

\* the same question is put again in another letter case
Recase ==
    /\ label # Pending
    /\ \E up \in BOOLEAN :
         /\ text' = (IF up THEN upper(text) ELSE lower(text))
         /\ text' # text
    /\ label' = Pending
    /\ UNCHANGED combinerVars
    /\ UNCHANGED pipelineVars
    /\ UNCHANGED loaderVars

IntentNext == Classify \/ Recase

SpecIntent == IntentInit /\ [][IntentNext]_vars

(***************************************************************************)
(* Properties of classify_intent                                           *)
(***************************************************************************)

IntentLabels ==
    {"calculate_statistic", "most_delayed_flights", "longest_journeys",
     "shortest_journeys", "multi_leg_flights", "loyalty_analysis",
     "delay_analysis", "find_flights", "airport_info", "passenger_experience",
     "route_recommendation", "general_query"}

\* the rules as the listing gives them: the keyword set each rule starts
\* with, and the labels the rule can return
ListedRules ==
    << [kws |-> StatKeywords,            labels |-> {"calculate_statistic"}],
       [kws |-> MostDelayedKeywords,     labels |-> {"most_delayed_flights",
                                                     "longest_journeys"}],
       [kws |-> ShortestKeywords,        labels |-> {"shortest_journeys"}],
       [kws |-> MultiLegKeywords,        labels |-> {"multi_leg_flights"}],
       [kws |-> LoyaltyKeywords,         labels |-> {"loyalty_analysis"}],
       [kws |-> delay_keywords,          labels |-> {"delay_analysis"}],
       [kws |-> flight_keywords,         labels |-> {"find_flights"}],
       [kws |-> airport_keywords,        labels |-> {"airport_info"}],
       [kws |-> passenger_keywords,      labels |-> {"passenger_experience"}],
       [kws |-> recommendation_keywords, labels |-> {"route_recommendation"}],
       [kws |-> GeneralKeywords,         labels |-> {"general_query"}] >>

KeywordHit(i, t) == AnyIn(t, ListedRules[i].kws)

\* the extra condition a rule asks for besides its keyword
RuleExtra(i, lab, t) ==
    CASE lab = "most_delayed_flights" -> AnyIn(t, {"delay", "late"})
      [] lab = "longest_journeys" ->
            /\ ~AnyIn(t, {"delay", "late"})
            /\ Contains(t, "longest")
            /\ AnyIn(t, {"journey", "flight", "route", "distance"})
      [] lab = "shortest_journeys" ->
            AnyIn(t, {"journey", "flight", "route", "distance"})
      [] lab = "find_flights" -> Contains(t, "from") \/ Contains(t, "to")
      [] OTHER -> TRUE

\* rule i returns lab on t
RuleFires(i, lab, t) ==
    /\ lab \in ListedRules[i].labels
    /\ KeywordHit(i, t)
    /\ RuleExtra(i, lab, t)

RuleFiresAny(i, t) == \E lab \in ListedRules[i].labels : RuleFires(i, lab, t)

\* C8: classify_intent returns one label of the fixed set, general_query
\* when no keyword of any rule occurs, and the same label for the text in
\* upper case and in lower case.
Thm_C8_LabelFromFixedSet ==
    label # Pending =>
        /\ label \in IntentLabels
        /\ (\A i \in 1..Len(ListedRules) : ~KeywordHit(i, lower(text)))
               => label = "general_query"
        /\ label = classify_intent(upper(text))
        /\ label = classify_intent(lower(text))

\* a question written in capitals, classified by a keyword
Wit_C8_UpperCaseQuestion ==
    /\ label = "loyalty_analysis"
    /\ text = upper(text)
    /\ text # lower(text)

\* C9: a text containing a statistics keyword is classified as
\* calculate_statistic whatever later-rule keywords it also contains.
Thm_C9_StatisticsFirst ==
    (label # Pending /\ AnyIn(lower(text), StatKeywords))
        => label = "calculate_statistic"

\* "average" together with "delay"
Wit_C9_AverageDelay ==
    /\ label = "calculate_statistic"
    /\ Contains(lower(text), "average")
    /\ Contains(lower(text), "delay")

\* C10 as stated: the label is one of the first rule a keyword of which
\* occurs in the lower-cased text.
Cex_C10_FirstKeywordRuleWins ==
    label # Pending =>
        \A i \in 1..Len(ListedRules) :
            (KeywordHit(i, lower(text))
             /\ \A j \in 1..(i - 1) : ~KeywordHit(j, lower(text)))
                => label \in ListedRules[i].labels

\* C10 amended: the label is that of the first rule whose whole condition
\* (keyword and, where the rule has one, its extra condition) holds; a rule
\* whose keyword occurs but whose extra condition fails is passed over, and
\* general_query is returned when no rule fires.
Thm_C10_FirstFiringRuleWins ==
    label # Pending =>
        LET t == lower(text) IN
        /\ \A i \in 1..Len(ListedRules) : \A lab \in ListedRules[i].labels :
              (RuleFires(i, lab, t) /\ \A j \in 1..(i - 1) : ~RuleFiresAny(j, t))
                  => label = lab
        /\ (\A i \in 1..Len(ListedRules) : ~RuleFiresAny(i, t))
              => label = "general_query"

\* "worst" occurs, the most-delayed rule does not fire, a later rule does
Wit_C10_KeywordWithoutExtra ==
    /\ label = "airport_info"
    /\ Contains(lower(text), "worst")


(***************************************************************************)
(* Properties of the deduplicated list and of the input records            *)
(***************************************************************************)

\* the record carries a journey identifier, at its top level or nested
HasIdentifier(ref) == IdOf(ref) \notin {AbsentKey, NoneStr, ""}

\* the elements of seq at the positions of `kept`, in their order
AtPositions(seq, kept) ==
    LET Kept(i) == i \in kept
        positions == SelectSeq([i \in 1..Len(seq) |-> i], Kept)
    IN [k \in 1..Len(positions) |-> seq[positions[k]]]

\* C27: every record of unique_results has a non-empty journey identifier
\* and the source tag "cypher" or "embedding"; records without an
\* identifier are left out; the surviving structured records come first, in
\* their input order, then the surviving semantic records in theirs.
Thm_C27_IdentifiedTaggedOrdered ==
    Returned =>
        /\ \A i \in 1..Len(combined.unique_results) :
              /\ HasIdentifier(combined.unique_results[i])
              /\ heap[combined.unique_results[i]].source \in {"cypher", "embedding"}
        /\ \A ref \in Range(CyIn) \cup Range(EmIn) :
              ~HasIdentifier(ref) => ref \notin Range(combined.unique_results)
        /\ combined.unique_results
               = AtPositions(CyIn, CyKept) \o AtPositions(EmIn, EmKept)
        /\ \A i \in 1..Len(combined.unique_results) :
              heap[combined.unique_results[i]].source
                  = (IF i <= Cardinality(CyKept) THEN "cypher" ELSE "embedding")

\* a listing whose structured list holds a record with a nested identifier
\* and whose semantic list holds a record with an empty identifier
Wit_C27_NestedKeptEmptyDropped ==
    /\ Returned
    /\ CyIn = <<2, 1>>
    /\ EmIn = <<8, 7>>
    /\ combined.unique_results = <<2, 1, 7>>
    /\ heap[7].source = "embedding"

\* the records the call keeps from each list
KeptStructured == {CyIn[i] : i \in CyKept}
KeptSemantic == {EmIn[i] : i \in EmKept}

\* what one combine_results call does to its inputs
CombineFrame ==
    /\ cypher_response' = cypher_response
    /\ embedding_response' = embedding_response
    /\ DOMAIN heap' = DOMAIN heap
    /\ \A ref \in DOMAIN heap :
          heap'[ref] =
              (IF ref \in KeptStructured THEN [heap[ref] EXCEPT !.source = "cypher"]
               ELSE IF ref \in KeptSemantic THEN [heap[ref] EXCEPT !.source = "embedding"]
               ELSE heap[ref])

\* C28: a combine_results call changes nothing in its two input responses
\* but the "source" key of the records that survive deduplication: the
\* lists keep their length and order, every other key keeps its value, and
\* dropped records are untouched.
Thm_C28_OnlySourceOfSurvivorsSet == [][CombineFrame]_vars

\* after a call, a survivor is tagged while a duplicate and a record
\* without identifier of the semantic list are as they were
Wit_C28_DroppedRecordsUntouched ==
    /\ Returned
    /\ cypher_response.results = <<1>>
    /\ embedding_response.results = <<5, 8>>
    /\ heap[1] = [Pool[1] EXCEPT !.source = "cypher"]
    /\ heap[5] = Pool[5]
    /\ heap[8] = Pool[8]

(***************************************************************************)
(* Properties of the template choice                                       *)
(***************************************************************************)

\* C21: execute_query runs the template keyed by the intent, and the
\* general_query template for an intent without one; every label
\* classify_intent returns has its own template, so a classified question
\* never takes the fallback.
Thm_C21_TemplateByIntent ==
    Queried =>
        /\ cur_intent \in QueryNames => cypher_response.query = cur_intent
        /\ cur_intent \notin QueryNames => cypher_response.query = "general_query"
        /\ IntentLabels \subseteq QueryNames
        /\ cur_intent \in IntentLabels => cypher_response.query = cur_intent

\* a query answered for an intent that has no template
Wit_C21_FallbackForUnknownIntent ==
    /\ Queried
    /\ cur_intent = "book_flight"
    /\ ~StageFailed("query")
    /\ cypher_response.count > 0
    /\ cypher_response.query = "general_query"


(***************************************************************************)
(* build_prompt called on its own, with and without the instructions       *)
(***************************************************************************)

\* contexts given to build_prompt: the placeholder, blank text, padded
\* text, and text that repeats the prompt's own headings
PromptContexts ==
    { "No data found.",
      "",
      "  \n",
      "\n\nFound 1 result(s) for find_flights:\n\nResult 1:\nJourney ID: J1\n\n",
      "TASK:\nYOUR ANSWER: none\nUSER QUESTION:",
      "KNOWLEDGE GRAPH DATA (Intent: general_query):\n\n3. SUMMARY:\t" }

PromptInit ==
    /\ IntentIdle
    /\ heap = Pool
    /\ cypher_response = NoResponse
    /\ embedding_response = NoResponse
    /\ max_results = DefaultMaxResults
    /\ combined \in {ContextOnly(c) : c \in PromptContexts}
    /\ previous = NoCombined
    /\ pc = "combined"
    /\ request \in [user_query : Questions, model : {NoneStr},
                    use_embeddings : {FALSE}, use_cypher : {FALSE},
                    include_instructions : BOOLEAN]
    /\ available = TRUE
    /\ cur_date = FirstDay
    /\ cur_intent = ""
    /\ cur_entities = NoEntities
    /\ prompt = ""
    /\ llm_response = NoLLMResponse
    /\ llm_calls = 0
    /\ raised = ""
    /\ trace = <<>>
    /\ bundle = NoBundle
    /\ LoaderIdle

\* one call of build_prompt(user_query, context, include_instructions)
BuildOnly ==
    /\ pc = "combined"
    /\ prompt' = build_prompt(request.user_query, combined.formatted_context,
                              request.include_instructions)
    /\ pc' = "prompted"
    /\ UNCHANGED <<request, available, cur_date, cur_intent, cur_entities,
                   llm_response, llm_calls, raised, trace, bundle>>
    /\ UNCHANGED <<intentVars, combinerVars>>
    /\ UNCHANGED loaderVars

PromptNext == BuildOnly

SpecPrompt == PromptInit /\ [][PromptNext]_vars

(***************************************************************************)
(* Properties of build_prompt                                              *)
(***************************************************************************)

PersonaBlock ==
    DoubleRule \o "\nPERSONA:\n" \o DoubleRule \o "\n"
    \o "You are an airline company insights assistant. Your role is to analyze\n"
    \o "flight performance data and passenger satisfaction metrics to help the airline\n"
    \o "improve service quality. You provide factual, data-driven insights based on\n"
    \o "actual flight records and passenger feedback.\n\n"

ContextHeader ==
    DoubleRule \o "\nCONTEXT (Knowledge Graph Data):\n" \o DoubleRule \o "\n"

TaskBlock ==
    DoubleRule \o "\nTASK:\n" \o DoubleRule \o "\n"
    \o "Answer the following question based ONLY on the CONTEXT provided above.\n\n"

InstructionBlock ==
    "IMPORTANT INSTRUCTIONS:\n"
    \o "1. Use ONLY the information provided in the CONTEXT section\n"
    \o "2. If the CONTEXT doesn't contain enough information, say: 'I don't have sufficient data to answer this question'\n"
    \o "3. Provide specific examples from the data (journey IDs, metrics, numbers)\n"
    \o "4. Be concise and factual - avoid speculation\n"
    \o "5. Do NOT make up or hallucinate any flight numbers, delays, or statistics\n"
    \o "6. If you see conflicting data, mention both sources\n\n"

QuestionHeader == SingleRule \o "\nUSER QUESTION:\n"

AnswerCue ==
    "YOUR ANSWER:\n(Provide a clear, factual answer based on the CONTEXT above)\n"

\* the prompt made of the blocks in their order, the instruction block
\* between the task and the question when `instructed`
PromptOf(question, context, instructed) ==
    PersonaBlock
    \o ContextHeader \o context \o "\n\n"
    \o TaskBlock
    \o (IF instructed THEN InstructionBlock ELSE "")
    \o QuestionHeader \o question \o "\n" \o SingleRule \o "\n\n"
    \o AnswerCue

\* C22: the prompt is the persona block, the context header with the
\* stripped context, the task block, the stripped question and the answer
\* cue, in that order; the numbered instructions stand between task and
\* question exactly when include_instructions is true, and the rest of the
\* prompt is the same either way.
Thm_C22_PromptLayout ==
    pc = "prompted" =>
        prompt = PromptOf(strip(request.user_query),
                          strip(combined.formatted_context),
                          request.include_instructions)

\* a prompt built without the instructions from a padded question and a
\* padded context
Wit_C22_PaddedWithoutInstructions ==
    /\ pc = "prompted"
    /\ ~request.include_instructions
    /\ request.user_query = "  Show me the 5 worst delayed flights tomorrow "
    /\ combined.formatted_context
           = "\n\nFound 1 result(s) for find_flights:\n\nResult 1:\nJourney ID: J1\n\n"
    /\ prompt = PromptOf("Show me the 5 worst delayed flights tomorrow",
                         "Found 1 result(s) for find_flights:\n\nResult 1:\nJourney ID: J1",
                         FALSE)
    /\ ~Contains(prompt, "IMPORTANT INSTRUCTIONS:")


(***************************************************************************)
(* Properties of the order of the stages                                   *)
(***************************************************************************)

\* the place of a stage in the order the specification gives
StageRank(stage) ==
    CASE stage = "classify" -> 1
      [] stage = "extract" -> 2
      [] stage = "query" -> 3
      [] stage = "search" -> 4
      [] stage = "combine" -> 5
      [] stage = "prompt" -> 6
      [] stage \in {"model", "model_refused"} -> 7

\* the stages that have run so far ran in the order of their ranks, none
\* of them twice
StagesInOrder ==
    \A i, k \in 1..Len(trace) :
        i < k => StageRank(trace[i].stage) < StageRank(trace[k].stage)

\* the calls of query_model made so far
ModelCalls == EventsOf("model") \cup EventsOf("model_refused")

\* C23: the stages of one answer_question call run in the order classify,
\* extract, structured query, semantic search, combine, build prompt, query
\* model; whatever retrieval did, the model is called exactly once, after
\* the prompt was built, and not again after a failure.
Cex_C23_OrderedStagesOneModelCall ==
    /\ StagesInOrder
    /\ Cardinality(ModelCalls) <= 1
    /\ ModelCalls # {} => EventsOf("prompt") # {}
    /\ Finished => Cardinality(ModelCalls) = 1


(***************************************************************************)
(* Further properties of extract_entities                                  *)
(***************************************************************************)

\* the number of the first limit pattern that matches the text, or None
NumberGiven == first_limit(lower(text))

Superlative == cur_entities.sort_order # NoneStr

UpperWords == Tokens(upper(text))

\* the text has a hyphenated XXX-YYY route
HasRoute == route_match(UpperWords) # 0

\* the airport codes that stand right after the word `keyword`
CodesAfter(keyword) ==
    {UpperWords[k].w : k \in {i \in 2..Len(UpperWords) :
        /\ UpperWords[i - 1].w = keyword
        /\ IsCode(UpperWords[i].w)
        /\ UpperWords[i].w \notin excluded_words}}

\* C25: without a hyphenated route, the code that follows "from" is the
\* departure airport and the code that follows "to" the arrival airport,
\* in whatever order the two stand in the text.
Cex_C25_RolesByKeyword ==
    (Extracted /\ ~HasRoute) =>
        /\ \A code \in CodesAfter("FROM") : cur_entities.departure_airport = code
        /\ \A code \in CodesAfter("TO") : cur_entities.arrival_airport = code

\* C29: route is set exactly when both airports are, and is then
\* departure-arrival; a hyphenated XXX-YYY route in the text gives both
\* airports, whatever other three-letter words the text holds.
Thm_C29_RouteFromBothAirports ==
    Extracted =>
        /\ cur_entities.route # NoneStr
               <=> (cur_entities.departure_airport # NoneStr
                    /\ cur_entities.arrival_airport # NoneStr)
        /\ cur_entities.route # NoneStr =>
              cur_entities.route = cur_entities.departure_airport \o "-"
                                       \o cur_entities.arrival_airport
        /\ HasRoute =>
              /\ cur_entities.departure_airport
                     = UpperWords[route_match(UpperWords) - 1].w
              /\ cur_entities.arrival_airport = UpperWords[route_match(UpperWords)].w
        /\ text = "from CAI to DXB, not JFK-LHR" => cur_entities.route = "JFK-LHR"

\* a hyphenated route standing after two other airport codes
Wit_C29_RouteAfterOtherCodes ==
    /\ Extracted
    /\ text = "from CAI to DXB, not JFK-LHR"
    /\ cur_entities.departure_airport = "JFK"
    /\ cur_entities.arrival_airport = "LHR"
    /\ cur_entities.route = "JFK-LHR"

(***************************************************************************)
(* Properties of the intent and the entities of one question               *)
(***************************************************************************)

\* C30: when the question is labelled multi_leg_flights, the number_of_legs
\* parameter bound for it is null or greater than 1, so it does not
\* contradict the template's own condition j.number_of_legs > 1.
Cex_C30_LegsFilterFitsMultiLegTemplate ==
    (Queried /\ cur_intent = "multi_leg_flights") =>
        \/ cypher_response.params.number_of_legs = NoneVal
        \/ cypher_response.params.number_of_legs.v > 1

(***************************************************************************)
(* A searcher and the model loader asked for models again and again        *)
(***************************************************************************)

\* load_model and get_model calls in one behaviour
MaxUses == 4

LoaderInit ==
    /\ IntentIdle
    /\ CombinerIdle
    /\ PipelineIdle
    /\ LoaderIdle

\* search_by_query -> embed_query -> load_model(model_name) on the one
\* searcher; the rows the search returns are not kept by the searcher
LoadModel ==
    /\ Len(loads) < MaxUses
    /\ \E model_name \in ModelNames, ok \in BOOLEAN :
          \E out \in {load_model(searcher_models, model_name, Fresh, ok)} :
              /\ searcher_models' = out.cached
              /\ loads' = Append(loads, LoadEvent(out))
    /\ UNCHANGED loaded_models
    /\ UNCHANGED <<intentVars, combinerVars, pipelineVars>>

\* embed_texts -> get_model(model_key)
GetModel ==
    /\ Len(loads) < MaxUses
    /\ \E model_key \in LoaderKeys, ok \in BOOLEAN :
          \E out \in {get_model(loaded_models, model_key, Fresh, ok)} :
              /\ loaded_models' = out.cached
              /\ loads' = Append(loads, LoadEvent(out))
    /\ UNCHANGED searcher_models
    /\ UNCHANGED <<intentVars, combinerVars, pipelineVars>>

LoaderNext == LoadModel \/ GetModel

SpecLoader == LoaderInit /\ [][LoaderNext]_vars

(***************************************************************************)
(* Properties of the model caches                                          *)
(***************************************************************************)

\* the call returned a model
ReturnedModel(i) == loads[i].instance # NoInstance

\* the call constructed the model it returned
Constructed(i) == loads[i].loading /\ ReturnedModel(i)

\* the earlier calls on the same dict for the same name that returned a model
EarlierUses(i) ==
    {j \in 1..(i - 1) : /\ loads[j].cache = loads[i].cache
                        /\ loads[j].name = loads[i].name
                        /\ ReturnedModel(j)}

\* what the dict of the call's side holds for a name
Cached(cache, name) ==
    IF cache = "searcher" THEN searcher_models[name]
    ELSE IF name \in DOMAIN loaded_models THEN loaded_models[name]
    ELSE NoInstance

\* C26: over any sequence of load_model calls on one searcher and of
\* get_model calls, each model is constructed at most once per dict: the
\* first call that returns a model for a name constructs and caches it, and
\* every later call for that name returns this instance without calling the
\* constructor again.
Thm_C26_ConstructedAtMostOnce ==
    /\ \A i, j \in 1..Len(loads) :
          (/\ Constructed(i) /\ Constructed(j)
           /\ loads[i].cache = loads[j].cache
           /\ loads[i].name = loads[j].name) => i = j
    /\ \A i \in 1..Len(loads) :
          /\ (ReturnedModel(i) /\ EarlierUses(i) = {}) => loads[i].loading
          /\ \A j \in EarlierUses(i) :
                /\ ~loads[i].loading
                /\ loads[i].instance = loads[j].instance
          /\ ReturnedModel(i) =>
                Cached(loads[i].cache, loads[i].name) = loads[i].instance

\* one name asked of the searcher three times and one key asked of the
\* loader: two constructions in four calls
Wit_C26_ThirdUseOfOneName ==
    /\ Len(loads) = 4
    /\ \A i \in 1..3 : /\ loads[i].cache = "searcher"
                       /\ loads[i].name = embedding_model_names["mpnet"]
                       /\ loads[i].instance = 1
    /\ loads[1].loading /\ ~loads[2].loading /\ ~loads[3].loading
    /\ loads[4] = [cache |-> "loader", name |-> "minilm", loading |-> TRUE,
                   instance |-> 2]
    /\ loaded_models["minilm"] = 2

=============================================================================
